---- MODULE Spec2Model ----
(***************************************************************************)
(* SmartSMS (custom_components/smartsms): inbound SMS webhook handler,     *)
(* Twilio polling task, sender filter, text sanitizer and message store.   *)
(*                                                                         *)
(* Strings are sequences of one-character strings.  Characters outside    *)
(* the keyboard are written by name or code point ("TAB", "U+00E9").       *)
(***************************************************************************)
EXTENDS Integers, Sequences, FiniteSets, TLC

VARIABLES
    now,              \* dt_util.utcnow(), in clock ticks
    config,           \* entry.data: whitelist, blacklist, keywords, credentials
    registry,         \* webhook._WEBHOOK_TO_ENTRY: webhook id -> entry id
    latest_message,   \* hass.data[DOMAIN][entry_id]["latest_message"]
    message_count,    \* hass.data[DOMAIN][entry_id]["message_count"]
    message_history,  \* hass.data[DOMAIN][entry_id]["message_history"]
    cleanup_task,     \* SmartSMSDataStore._cleanup_task
    tasks,            \* prune tasks the event loop was given and has finished
    bus,              \* events fired on hass.bus, in order
    inflight,         \* handle_webhook call suspended in _parse_request_data
    response,         \* the last web.Response returned by handle_webhook
    poll_pc,          \* position of poll_twilio_messages
    unload_pc,        \* position of async_unload_entry
    processed_sids,   \* poll_twilio_messages: processed_sids
    binary_sensor,    \* SmartSMSBinarySensor per entry: _attr_is_on, _reset_cancel
    hist,             \* observation: calls made and ids evicted so far
    call,             \* arguments of a pure function under test
    ret               \* its result

vars == <<now, config, registry, latest_message, message_count,
          message_history, cleanup_task, tasks, bus, inflight, response,
          poll_pc, unload_pc, processed_sids, binary_sensor, hist, call, ret>>


\* ------------------------------------------------------------------------
\* Bounds of the model
\* ------------------------------------------------------------------------

\* Last clock tick.
MaxTime == 3
\* store_message calls explored per run.
MaxStores == 5
\* handle_webhook calls explored per run.
MaxDeliveries == 2
\* Twilio message sids the provider can return.
NumSids == 4
\* Message-received events the other entry fires per run.
MaxOtherEvents == 2

\* ------------------------------------------------------------------------
\* Characters
\* ------------------------------------------------------------------------

\* ord() of the characters the model uses.
Ord(c) ==
    CASE c = "TAB" -> 9
      [] c = " " -> 32
      [] c = "QUOTE" -> 34
      [] c = "%" -> 37
      [] c = "&" -> 38
      [] c = "*" -> 42
      [] c = "+" -> 43
      [] c = "2" -> 50
      [] c = "5" -> 53
      [] c = ";" -> 59
      [] c = "<" -> 60
      [] c = "A" -> 65
      [] c = "H" -> 72
      [] c = "R" -> 82
      [] c = "U" -> 85
      [] c = "W" -> 87
      [] c = "Z" -> 90
      [] c = "h" -> 104
      [] c = "l" -> 108
      [] c = "t" -> 116
      [] c = "w" -> 119
      [] c = "U+00E9" -> 233
      [] c = "U+226A" -> 8810
      [] c = "U+FFFD" -> 65533

\* The characters _sanitize_message_text removes although they are printable.
MarkdownChars ==
    {"*", "_", "BACKTICK", "#", "[", "]", "!", "|", "BACKSLASH", "^", ">", "<", "~"}

\* str.lower() on one character.
LowerChar(c) ==
    CASE c = "A" -> "a"
      [] c = "H" -> "h"
      [] c = "R" -> "r"
      [] c = "U" -> "u"
      [] c = "W" -> "w"
      [] c = "Z" -> "z"
      [] OTHER -> c

Lower(s) == [i \in 1..Len(s) |-> LowerChar(s[i])]

\* Drop the first n characters of s.
Drop(s, n) == IF n >= Len(s) THEN <<>> ELSE SubSeq(s, n + 1, Len(s))

\* Python's  needle in haystack  on strings.
IsSubstring(needle, haystack) ==
    \E i \in 0..(Len(haystack) - Len(needle)) :
        SubSeq(haystack, i + 1, i + Len(needle)) = needle

\* ------------------------------------------------------------------------
\* _sanitize_message_text (__init__.py)
\* ------------------------------------------------------------------------

\* Every character of the model.  It holds no "#" and no hexadecimal digit
\* other than 2, 5 and A, so no numeric character reference and no
\* multi-byte UTF-8 escape can be written with it.
Chars ==
    {"TAB", " ", "QUOTE", "%", "&", "*", "+", "2", "5", ";", "<", "A", "H",
     "R", "U", "W", "Z", "h", "l", "t", "w", "U+00E9", "U+226A", "U+FFFD"}

\* chr() on the code points of the model.
Chr(n) == CHOOSE c \in Chars : Ord(c) = n

\* [0-9A-Fa-f]
IsHex(c) ==
    c \in {"0", "1", "2", "3", "4", "5", "6", "7", "8", "9",
           "A", "B", "C", "D", "E", "F", "a", "b", "c", "d", "e", "f"}

\* Value of a hexadecimal digit of the model.
HexVal(c) == CASE c = "2" -> 2 [] c = "5" -> 5 [] c = "A" -> 10

\* bytes([b]).decode("utf-8", "replace") for a byte that stands alone: an
\* ASCII byte is its character, a lone byte of 0x80 or more is U+FFFD.
ByteChar(b) == IF b < 128 THEN Chr(b) ELSE "U+FFFD"

\* re.search(r'%[0-9A-Fa-f]{2}', text)
HasPercentEscape(s) ==
    \E i \in 1..(Len(s) - 2) : s[i] = "%" /\ IsHex(s[i + 1]) /\ IsHex(s[i + 2])

\* urllib.parse.unquote: one pass, every %XX becomes its byte.
RECURSIVE Unquote(_)
Unquote(s) ==
    IF s = <<>> THEN <<>>
    ELSE IF s[1] = "%" /\ Len(s) >= 3 /\ IsHex(s[2]) /\ IsHex(s[3])
         THEN <<ByteChar(16 * HexVal(s[2]) + HexVal(s[3]))>> \o Unquote(Drop(s, 3))
         ELSE <<s[1]>> \o Unquote(Tail(s))

\* urllib.parse.unquote_plus: "+" becomes a space, then unquote.
UnquotePlus(s) == Unquote([i \in 1..Len(s) |-> IF s[i] = "+" THEN " " ELSE s[i]])

\* A character that can stand in the name of a character reference:
\* [^\t\n\f <&#;]
IsNameChar(c) == c \notin {"TAB", " ", "<", "&", "#", ";"}

\* Length of the run of name characters at the head of s.
RECURSIVE NameLen(_)
NameLen(s) ==
    IF s = <<>> \/ ~IsNameChar(s[1]) THEN 0 ELSE 1 + NameLen(Tail(s))

\* html.unescape.  Of the HTML5 references, the characters of the model
\* spell "lt" (with or without its semicolon, also as the prefix of a longer
\* name) and "ll;".
RECURSIVE HtmlUnescape(_)
HtmlUnescape(s) ==
    IF s = <<>> THEN <<>>
    ELSE IF s[1] # "&" THEN <<s[1]>> \o HtmlUnescape(Tail(s))
    ELSE LET rest == Tail(s)
             n == NameLen(rest)
             name == SubSeq(rest, 1, n)
             semi == Len(rest) > n /\ rest[n + 1] = ";"
         IN  IF name = <<"l", "t">> /\ semi
                 THEN <<"<">> \o HtmlUnescape(Drop(rest, 3))
             ELSE IF name = <<"l", "l">> /\ semi
                 THEN <<"U+226A">> \o HtmlUnescape(Drop(rest, 3))
             ELSE IF n >= 2 /\ SubSeq(name, 1, 2) = <<"l", "t">>
                 THEN <<"<">> \o HtmlUnescape(Drop(rest, 2))
             ELSE <<"&">> \o HtmlUnescape(rest)

\* Step 3: keep printable ASCII that is no markdown character, turn tab, LF
\* and CR into a space, drop the rest.
RECURSIVE AsciiFilter(_)
AsciiFilter(s) ==
    IF s = <<>> THEN <<>>
    ELSE LET c == s[1]
             code == Ord(c)
             out == IF 32 <= code /\ code <= 126
                        THEN IF c \notin MarkdownChars THEN <<c>> ELSE <<>>
                    ELSE IF code = 9 THEN <<" ">>
                    ELSE IF code \in {10, 13} THEN <<" ">>
                    ELSE <<>>
         IN  out \o AsciiFilter(Tail(s))

\* re.sub(r'\s+', ' ', s): after AsciiFilter the only whitespace is " ".
RECURSIVE CollapseSpaces(_)
CollapseSpaces(s) ==
    IF Len(s) < 2 THEN s
    ELSE IF s[1] = " " /\ s[2] = " " THEN CollapseSpaces(Tail(s))
    ELSE <<s[1]>> \o CollapseSpaces(Tail(s))

\* str.lstrip() in place of str.strip().
StripLeading(s) == IF s # <<>> /\ s[1] = " " THEN Tail(s) ELSE s

\* str.strip() of a string whose runs of spaces are collapsed.
Strip(s) ==
    LET a == IF s # <<>> /\ s[1] = " " THEN Tail(s) ELSE s
    IN  IF a # <<>> /\ a[Len(a)] = " " THEN SubSeq(a, 1, Len(a) - 1) ELSE a

_sanitize_message_text(text) ==
    IF text = <<>> THEN text
    ELSE LET decoded == IF HasPercentEscape(text) THEN UnquotePlus(text) ELSE text
         IN  Strip(CollapseSpaces(AsciiFilter(HtmlUnescape(decoded))))

\* ------------------------------------------------------------------------
\* Filter engine (webhook.py)
\* ------------------------------------------------------------------------

\* The whitelist and the blacklist are lists in entry.data; the code only
\* tests them for emptiness and membership, so the model keeps them as sets.
ShouldProcessEitherList(config_data, message_data) ==
    LET sender == message_data.sender
        whitelist == config_data.sender_whitelist
        blacklist == config_data.sender_blacklist
    IN  IF whitelist # {} THEN sender \in whitelist
        ELSE ~(blacklist # {} /\ sender \in blacklist)

_should_process_message(config_data, message_data) ==
    LET sender == message_data.sender
        whitelist == config_data.sender_whitelist
        blacklist == config_data.sender_blacklist
    IN  IF whitelist # {} /\ sender \notin whitelist THEN FALSE
        ELSE IF blacklist # {} /\ sender \in blacklist THEN FALSE
        ELSE TRUE

\* A keyword is a literal, [kind |-> "lit", text |-> s], or a "regex:"
\* pattern, [kind |-> "regex", valid |-> b, anchored |-> a, text |-> s]: the
\* pattern ^s$ when anchored and s otherwise, with s free of regex operators;
\* an invalid pattern makes re.search raise re.error.
KeywordMatches(keyword, message_body) ==
    IF keyword.kind = "regex"
    THEN /\ keyword.valid
         /\ IF keyword.anchored
            THEN Lower(keyword.text) = Lower(message_body)
            ELSE IsSubstring(Lower(keyword.text), Lower(message_body))
    ELSE IsSubstring(Lower(keyword.text), Lower(message_body))

\* A loop that appends a keyword only when it is not among the matches yet.
RECURSIVE CheckLoopCollapses(_, _, _)
CheckLoopCollapses(keywords, message_body, matched) ==
    IF keywords = <<>> THEN matched
    ELSE CheckLoopCollapses(Tail(keywords), message_body,
             IF KeywordMatches(Head(keywords), message_body)
                /\ \A i \in 1..Len(matched) : matched[i] # Head(keywords)
             THEN Append(matched, Head(keywords))
             ELSE matched)

\* A loop inside the try: re.error ends it with the matches made so far.
RECURSIVE CheckLoopAborts(_, _, _)
CheckLoopAborts(keywords, message_body, matched) ==
    IF keywords = <<>> THEN matched
    ELSE IF Head(keywords).kind = "regex" /\ ~Head(keywords).valid THEN matched
    ELSE CheckLoopAborts(Tail(keywords), message_body,
             IF KeywordMatches(Head(keywords), message_body)
             THEN Append(matched, Head(keywords))
             ELSE matched)

\* "for keyword in keywords" with the matches made so far: re.error, raised
\* by re.search for an invalid pattern, is caught inside the loop and logged,
\* and the loop goes on with the next keyword.
RECURSIVE CheckLoop(_, _, _)
CheckLoop(keywords, message_body, matched) ==
    IF keywords = <<>> THEN matched
    ELSE LET keyword == Head(keywords)
         IN  IF keyword.kind = "regex" /\ ~keyword.valid
             THEN CheckLoop(Tail(keywords), message_body, matched)
             ELSE IF KeywordMatches(keyword, message_body)
             THEN CheckLoop(Tail(keywords), message_body, Append(matched, keyword))
             ELSE CheckLoop(Tail(keywords), message_body, matched)

_check_keywords(keywords, message_body) ==
    IF keywords = <<>> THEN <<>>
    ELSE CheckLoop(keywords, message_body, <<>>)

\* ------------------------------------------------------------------------
\* Payload parser and field extractor (webhook.py)
\* ------------------------------------------------------------------------

\* dict.get(key, default) on a parsed payload.
Get(data, key, default) == IF key \in DOMAIN data THEN data[key] ELSE default

\* The key/value pairs a request body spells.  A request is a record with
\* the declared content_length (0 when none is declared: None and 0 are both
\* falsy), the size of the body it sends in bytes (a chunked request sends a
\* body and declares no length), the encoding enc of the body, the set keys
\* of the keys it sends and their values Body, From and MessageSid.  The
\* message sid 0 stands for the empty string.
WireFields(request) == [k \in request.keys |-> request[k]]

\* A pair whose value is blank: parse_qs drops it, request.post() keeps it.
IsBlank(key, value) ==
    CASE key = "Body" -> value = <<>>
      [] key = "From" -> value = ""
      [] key = "MessageSid" -> value = 0

NoFields == [k \in {} |-> 0]

\* The result of _parse_request_data: kind "none" is None, "mapping" a dict
\* with the given fields, "other" a JSON value that is no object; truthy is
\* bool() of the result.
\*   enc "form":       form content type, request.post() yields the pairs;
\*   enc "urlencoded": other content type, body parsed by parse_qs;
\*   enc "json":       a JSON object;
\*   enc "json_list":  a non-empty JSON array (or string, or number);
\*   enc "json_null":  a JSON value that is falsy and no object;
\*   enc "garbage":    text that parse_qs and json.loads both reject;
\*   enc "empty":      no body.
_parse_request_data(request) ==
    LET fields == WireFields(request)
        kept == [k \in {key \in DOMAIN fields : ~IsBlank(key, fields[key])}
                    |-> fields[k]]
        Mapping(f) == [kind |-> "mapping", truthy |-> DOMAIN f # {}, fields |-> f]
    IN  CASE request.enc = "form" ->
                IF DOMAIN fields # {} THEN Mapping(fields)
                ELSE [kind |-> "none", truthy |-> FALSE, fields |-> NoFields]
          [] request.enc = "urlencoded" ->
                IF DOMAIN kept # {} THEN Mapping(kept)
                ELSE [kind |-> "none", truthy |-> FALSE, fields |-> NoFields]
          [] request.enc = "json" -> Mapping(fields)
          [] request.enc = "json_list" ->
                [kind |-> "other", truthy |-> TRUE, fields |-> NoFields]
          [] request.enc = "json_null" ->
                [kind |-> "other", truthy |-> FALSE, fields |-> NoFields]
          [] OTHER -> [kind |-> "none", truthy |-> FALSE, fields |-> NoFields]

\* body[:n]
Truncate(body, n) == IF Len(body) > n THEN SubSeq(body, 1, n) ELSE body

\* len(body) > 1600 in _extract_message_data, in characters of the model.
SmsLengthLimit == 4

\* The result of _extract_message_data: <<>> for None, else <<record>>.
\* The record's to_number and timestamp are copied from the payload and
\* read by no code of the pipeline; the model leaves them out.
_extract_message_data(data) ==
    LET body == Get(data, "Body", <<>>)
        sender == Get(data, "From", "")
        message_sid == Get(data, "MessageSid", 0)
    IN  IF body = <<>> \/ sender = "" THEN <<>>
        ELSE << [body |-> Truncate(body, SmsLengthLimit),
                 sender |-> sender,
                 message_sid |-> message_sid,
                 provider |-> "twilio",
                 matched_keywords |-> <<>>] >>

\* ------------------------------------------------------------------------
\* SmartSMSDataStore (data_store.py)
\* ------------------------------------------------------------------------

\* len(entry_data["message_history"]) > 1000, in entries of the model.
CleanupThreshold == 3
\* DEFAULT_MESSAGE_RETENTION_DAYS = 180, in clock ticks of the model.
RetentionTicks == 2

\* dt_util.utcnow().isoformat(): a timestamp that parses and carries an
\* offset.  The other kinds of stored_at are "absent" (no key, None or ""),
\* "garbage" (a string fromisoformat rejects), "naive" (a timestamp without
\* offset, whose comparison with the cutoff raises TypeError) and
\* "nonstring" (a value without .replace).
IsoFormat(t) == [kind |-> "aware", t |-> t]

\* A _schedule_cleanup that creates a task whatever the state of the last.
ScheduleCleanupAlways(st) ==
    [st EXCEPT !.cleanup_task = "pending", !.tasks.created = @ + 1]

\* _cleanup_task: "none" is None, "pending" a task that is not done, "done"
\* one that is.  tasks counts the tasks hass.async_create_task was given
\* (created) and those that have run to their end (finished).
_schedule_cleanup(st) ==
    IF st.cleanup_task = "pending" THEN st
    ELSE [st EXCEPT !.cleanup_task = "pending", !.tasks.created = @ + 1]

\* store_message with the counter taken from the length of the history.
StoreMessageCountsHistory(st, message_data, t) ==
    LET history == Append(st.message_history,
                          [message |-> message_data, stored_at |-> IsoFormat(t)])
        stored == [st EXCEPT !.latest_message = <<message_data>>,
                             !.message_count = Len(history),
                             !.message_history = history]
    IN  IF Len(history) > CleanupThreshold THEN _schedule_cleanup(stored)
        ELSE stored

\* store_message with the new entry put at the head of the history.
StoreMessagePrepends(st, message_data, t) ==
    LET history == <<[message |-> message_data, stored_at |-> IsoFormat(t)]>>
                       \o st.message_history
        stored == [st EXCEPT !.latest_message = <<message_data>>,
                             !.message_count = @ + 1,
                             !.message_history = history]
    IN  IF Len(history) > CleanupThreshold THEN _schedule_cleanup(stored)
        ELSE stored

\* store_message without the increment of the counter.
StoreMessageSkipsCount(st, message_data, t) ==
    LET history == Append(st.message_history,
                          [message |-> message_data, stored_at |-> IsoFormat(t)])
        stored == [st EXCEPT !.latest_message = <<message_data>>,
                             !.message_history = history]
    IN  IF Len(history) > CleanupThreshold THEN _schedule_cleanup(stored)
        ELSE stored

\* The store's part of hass.data[DOMAIN][entry_id] with _cleanup_task, as a
\* record st; latest_message is <<>> until a message is stored.
store_message(st, message_data, t) ==
    LET history == Append(st.message_history,
                          [message |-> message_data, stored_at |-> IsoFormat(t)])
        stored == [st EXCEPT !.latest_message = <<message_data>>,
                             !.message_count = @ + 1,
                             !.message_history = history]
    IN  IF Len(history) > CleanupThreshold THEN _schedule_cleanup(stored)
        ELSE stored

\* The test of the loop, dropping what it cannot parse or compare.
KeepsEntryParsedOnly(msg, cutoff_date) ==
    CASE msg.stored_at.kind = "absent" -> TRUE
      [] msg.stored_at.kind = "aware" -> msg.stored_at.t > cutoff_date
      [] OTHER -> FALSE

\* The test of the loop of _cleanup_old_messages on one entry.
KeepsEntry(msg, cutoff_date) ==
    CASE msg.stored_at.kind = "absent" -> TRUE
      [] msg.stored_at.kind = "aware" -> msg.stored_at.t > cutoff_date
      [] OTHER -> TRUE

\* A prune that also cuts the history to its newest CleanupThreshold entries.
CleanupCapsHistory(history, t) ==
    LET kept == SelectSeq(history, LAMBDA msg : KeepsEntry(msg, t - RetentionTicks))
    IN  IF Len(kept) > CleanupThreshold
        THEN SubSeq(kept, Len(kept) - CleanupThreshold + 1, Len(kept))
        ELSE kept

\* The history _cleanup_old_messages leaves at time t.  An entry whose
\* stored_at has no .replace raises AttributeError, which the outer handler
\* catches before the history is assigned.
_cleanup_old_messages(history, t) ==
    LET cutoff_date == t - RetentionTicks
    IN  IF history = <<>> THEN history
        ELSE IF \E i \in 1..Len(history) :
                    history[i].stored_at.kind = "nonstring"
             THEN history
        ELSE SelectSeq(history, LAMBDA msg : KeepsEntry(msg, cutoff_date))

\* ------------------------------------------------------------------------
\* Inputs of the model
\* ------------------------------------------------------------------------

Sender1 == "+61412345678"
Sender2 == "+61499999999"
Senders == {Sender1, Sender2}

\* The instance's webhook id, an id no instance has, and the entry id.
WebhookId == "wh1"
UnknownWebhookId == "wh2"
EntryId == "e1"

\* Message bodies, abbreviated: "Hello*World", "hi", the two bodies
\* handle_webhook takes for a test ("Test from curl", "Test+from+curl") and
\* the body it stores for them ("Webhook Test Successful").
HelloWorld == <<"H", "*", "W">>
Hi == <<"h">>
TestFromCurl == <<"t", " ", "t">>
TestPlusFromCurl == <<"t", "+", "t">>
WebhookTestSuccessful == <<"W", "t">>
\* A body one character longer than _extract_message_data lets through.
LongBody == [i \in 1..(SmsLengthLimit + 1) |-> "h"]

Sids == 1..NumSids

\* content_length > 10000
PayloadLimit == 10000

\* The entry.data the instance can be configured with.  The config flow
\* requires account_sid and auth_token, so the polling task always finds
\* its credentials.
Configs ==
    {[sender_whitelist |-> w, sender_blacklist |-> b, keywords |-> <<>>] :
        w \in {{}, {Sender2}}, b \in {{}, {Sender2}}}
    \cup {[sender_whitelist |-> {}, sender_blacklist |-> {},
           keywords |-> <<[kind |-> "lit", text |-> Hi]>>]}

\* An entry.data without filters and keywords.
NoFilters == [sender_whitelist |-> {}, sender_blacklist |-> {}, keywords |-> <<>>]

\* The webhook requests the model delivers: every combination of a missing,
\* blank or present Body and From as a form post, the cases in which the
\* other encodings differ from it, bodies that spell no key/value pairs, and
\* the accepted request with a declared length within and over the payload
\* limit and with a body over the limit whose length is not declared, and
\* the accepted request without the X-Twilio-Signature header and with one
\* that does not match its content (the others carry the matching one).
Requests ==
    LET Wire(enc, body, from) ==
            [content_length |-> 0,
             size |-> 100,
             signature |-> "valid",
             enc |-> enc,
             keys |-> {k \in {"Body", "From", "MessageSid"} :
                          \/ k = "Body" /\ body # <<>>
                          \/ k = "From" /\ from # <<>>
                          \/ k = "MessageSid"},
             Body |-> IF body = <<>> THEN <<>> ELSE body[1],
             From |-> IF from = <<>> THEN "" ELSE from[1],
             MessageSid |-> 1]
        Bare(enc) ==
            [content_length |-> 0, size |-> 0, signature |-> "valid",
             enc |-> enc, keys |-> {},
             Body |-> <<>>, From |-> "", MessageSid |-> 0]
        accepted == Wire("form", <<HelloWorld>>, <<Sender1>>)
    IN  {Wire("form", body, from) :
            body \in {<<>>, << <<>> >>, <<HelloWorld>>, <<TestFromCurl>>},
            from \in {<<>>, <<"">>, <<Sender1>>, <<Sender2>>}}
        \cup {Wire("form", <<Hi>>, <<Sender1>>),
              Wire("form", <<LongBody>>, <<Sender1>>),
              Wire("urlencoded", << <<>> >>, <<Sender1>>),
              Wire("urlencoded", <<HelloWorld>>, <<"">>),
              Wire("urlencoded", <<HelloWorld>>, <<Sender2>>),
              Wire("json", <<HelloWorld>>, <<Sender1>>),
              Wire("json", <<>>, <<Sender1>>),
              Bare("json")}
        \cup {Bare(enc) : enc \in {"json_list", "json_null", "garbage", "empty"}}
        \cup {[accepted EXCEPT !.content_length = n, !.size = n] :
                 n \in {100, PayloadLimit + 1}}
        \cup {[accepted EXCEPT !.size = PayloadLimit + 1]}
        \cup {[accepted EXCEPT !.signature = sig] : sig \in {"missing", "invalid"}}

\* The message the provider's API holds under a sid: the last sid is an
\* outbound message, the others are inbound.
ProviderMessage(sid) ==
    [sid |-> sid,
     from_ |-> IF sid % 2 = 1 THEN Sender1 ELSE Sender2,
     body |-> IF sid % 3 = 1 THEN HelloWorld
              ELSE IF sid % 3 = 2 THEN Hi ELSE <<"h", "TAB", "TAB", "W">>,
     date_sent |-> (NumSids - sid) \div 2,
     direction |-> IF sid = NumSids THEN "outbound-api" ELSE "inbound"]

\* ------------------------------------------------------------------------
\* SmartSMSBinarySensor (binary_sensor.py)
\* ------------------------------------------------------------------------

\* A second config entry of the integration.
OtherEntryId == "e2"

\* The sids of provider messages that are not delivered to the webhook of
\* the first entry.
OtherSids == {2, 3}

\* BINARY_SENSOR_RESET_DELAY = 5 seconds, in clock ticks of the model.
BinarySensorResetDelay == 1

\* A binary sensor as __init__ leaves it: is_on is _attr_is_on, reset_at the
\* time the callback of async_call_later is due (<<>> when _reset_cancel is
\* None).
SensorOff == [is_on |-> FALSE, reset_at |-> <<>>]

\* _trigger_new_message at time t: the pending reset is cancelled, the sensor
\* turned on and a reset scheduled.
_trigger_new_message(t) ==
    [is_on |-> TRUE, reset_at |-> <<t + BinarySensorResetDelay>>]

\* The listeners of the binary sensors added to hass (sensors maps their
\* entries to them) on the events fired at time t: _handle_message_received
\* runs for every message-received event on the bus, and its test, that the
\* sensor's own entry has data in hass.data, holds for every sensor that is
\* added, since the platforms are set up after the entry's data and unloaded
\* before it is removed.  The event carries no entry id.
_handle_message_received(sensors, events, t) ==
    IF \E i \in 1..Len(events) : events[i].type = "smartsms_message_received"
    THEN [e \in DOMAIN sensors |-> _trigger_new_message(t)]
    ELSE sensors

\* ------------------------------------------------------------------------
\* handle_webhook (webhook.py)
\* ------------------------------------------------------------------------

\* An event that carries the record without its matches.
EventDropsMatches(type, data) ==
    [type |-> type,
     data |-> IF "matched_keywords" \in DOMAIN data
              THEN [data EXCEPT !.matched_keywords = <<>>]
              ELSE data]

\* hass.bus.async_fire appends an event to the bus.
Event(type, data) == [type |-> type, data |-> data]

\* hass.data[DOMAIN][entry_id] and _cleanup_task, as store_message takes them.
StoreState ==
    [latest_message |-> latest_message,
     message_count |-> message_count,
     message_history |-> message_history,
     cleanup_task |-> cleanup_task,
     tasks |-> tasks]

\* _update_entities: store the message, then fire the refresh event.
DataUpdated == Event("smartsms_data_updated", [entry_id |-> EntryId])

\* The steps of the pipeline in which an error can be raised, as an input of
\* a delivery: "parse" (reading the body raises in request.post() and in
\* request.text()), "extract" (a Body without len()), "filter", "keywords"
\* (an error other than re.error, such as a Body without .lower()), "fire"
\* (the publication of the message-received event) and "store" (inside
\* store_message); "none" when no step raises.
Faults == {"none", "parse", "extract", "filter", "keywords", "fire", "store"}

\* _parse_request_data when reading the body may raise: both reads are
\* wrapped in try/except and the function returns None.
ParsedData(request, fault) ==
    IF fault = "parse"
    THEN [kind |-> "none", truthy |-> FALSE, fields |-> NoFields]
    ELSE _parse_request_data(request)

\* An error that leaves the try block with no response.
RaiseUncaught(step) ==
    [status |-> 0, fired |-> <<>>, stored |-> <<>>, raised |-> step]

\* The except clause of handle_webhook: an error raised in step is answered
\* 500.  Nothing is fired or stored before the steps that can raise here.
Raise(step) ==
    [status |-> 500, fired |-> <<>>, stored |-> <<>>, raised |-> step]

\* The literal the signature check is guarded with: "if False and ...".
SignatureCheckEnabled == FALSE

\* _validate_twilio_signature: False without the header, else the comparison
\* of the header with the HMAC of the url and the sorted fields under the
\* auth token (which the config flow requires of every instance).
_validate_twilio_signature(request) == request.signature = "valid"

\* An _update_entities that lets the error of store_message reach the except
\* clause of handle_webhook.
UpdateEntitiesRaises(fired, message, fault) ==
    IF fault = "store"
    THEN [status |-> 500, fired |-> fired, stored |-> <<>>, raised |-> "store"]
    ELSE [status |-> 200, fired |-> fired, stored |-> <<message>>, raised |-> ""]

\* The end of handle_webhook after the events fired: _update_entities and
\* the response.  An error inside store_message is caught and logged there,
\* _update_entities goes on to fire the refresh event, and the response is
\* the one of a stored message.
UpdateEntitiesResult(fired, message, fault) ==
    IF fault = "store"
    THEN [status |-> 200, fired |-> Append(fired, DataUpdated),
          stored |-> <<>>, raised |-> "store"]
    ELSE [status |-> 200, fired |-> fired, stored |-> <<message>>, raised |-> ""]

\* What handle_webhook does once _parse_request_data has returned data:
\* the status of its response, the events it fires in order, the message
\* store_message stores (<<>> when none) and the step an error was raised
\* in ("" when none was; "handler" is data.get on a payload that is no
\* mapping).  A key matched_keywords of <<>> stands for a message without that
\* key.  An error inside _extract_message_data is caught there and None is
\* returned; an error inside store_message is caught there, and
\* _update_entities goes on to fire the refresh event.
PipelineResult(config_data, webhook_id, request, data, fault) ==
    LET Result(status, fired, stored, raised) ==
            [status |-> status, fired |-> fired, stored |-> stored,
             raised |-> raised]
        Updated(fired, message) == UpdateEntitiesResult(fired, message, fault)
        parse_raised == IF fault = "parse" THEN "parse" ELSE ""
        fields == data.fields
        body == Get(fields, "Body", <<>>)
        test_message_data ==
            [body |-> WebhookTestSuccessful,
             sender |-> Get(fields, "From", "+TEST"),
             message_sid |-> Get(fields, "MessageSid", -1),
             provider |-> "test",
             matched_keywords |-> <<>>]
        extracted == IF fault = "extract" THEN <<>> ELSE _extract_message_data(fields)
        matched_keywords == _check_keywords(config_data.keywords, extracted[1].body)
        message_data == [extracted[1] EXCEPT !.matched_keywords = matched_keywords]
    IN  IF ~data.truthy THEN Result(400, <<>>, <<>>, parse_raised)
        ELSE IF data.kind # "mapping" THEN Raise("handler")
        ELSE IF body \in {TestFromCurl, TestPlusFromCurl}
            THEN IF fault = "fire" THEN Raise("fire")
                 ELSE Updated(<<Event("smartsms_message_received", test_message_data),
                                Event("smartsms_test_success",
                                      [webhook_id |-> webhook_id])>>,
                              test_message_data)
        ELSE IF SignatureCheckEnabled /\ ~_validate_twilio_signature(request)
            THEN Result(403, <<>>, <<>>, "")
        ELSE IF extracted = <<>>
            THEN Result(400, <<>>, <<>>, IF fault = "extract" THEN "extract" ELSE "")
        ELSE IF fault = "filter" THEN Raise("filter")
        ELSE IF ~_should_process_message(config_data, extracted[1])
            THEN Result(200, <<>>, <<>>, "")
        ELSE IF fault = "keywords" THEN Raise("keywords")
        ELSE IF fault = "fire" THEN Raise("fire")
        ELSE Updated(<<Event("smartsms_message_received", message_data)>>
                         \o (IF matched_keywords # <<>>
                             THEN <<Event("smartsms_keyword_matched", message_data)>>
                             ELSE <<>>),
                     message_data)

\* The types of a sequence of events.
Types(events) == [i \in 1..Len(events) |-> events[i].type]

\* The response of a call, with what the call did: the types of the events it
\* fired, the message it stored and the step an error was raised in.
Respond(webhook_id, request, status, events, stored, raised) ==
    response' = << [webhook_id |-> webhook_id, request |-> request,
                    status |-> status, events |-> events, stored |-> stored,
                    raised |-> raised] >>

\* The checks with the lookup before the size check.
EarlyStatusLookupFirst(webhook_to_entry, webhook_id, request) ==
    IF webhook_id \notin DOMAIN webhook_to_entry THEN 404
    ELSE IF request.content_length # 0 /\ request.content_length > PayloadLimit
    THEN 413
    ELSE 0

\* The checks handle_webhook makes before it reads the body: the status it
\* answers at once, or 0 when it goes on.  The entry of a registered webhook
\* id is always among the config entries.
EarlyStatus(webhook_to_entry, webhook_id, request) ==
    IF request.content_length # 0 /\ request.content_length > PayloadLimit
    THEN 413
    ELSE IF webhook_id \notin DOMAIN webhook_to_entry THEN 404
    ELSE 0

\* handle_webhook up to its first suspension, the read of the request body:
\* the test event, the payload-size check and the lookup of the instance.
\* fault is the step of this call in which an error will be raised.
WebhookReceive(webhook_id, request, fault) ==
    /\ inflight = <<>>
    /\ hist.deliveries < MaxDeliveries
    /\ bus' = Append(bus, Event("smartsms_webhook_test", [webhook_id |-> webhook_id]))
    /\ hist' = [hist EXCEPT !.deliveries = @ + 1]
    /\ IF EarlyStatus(registry, webhook_id, request) # 0
       THEN /\ Respond(webhook_id, request, EarlyStatus(registry, webhook_id, request),
                       <<"smartsms_webhook_test">>, <<>>, "")
            /\ UNCHANGED inflight
       ELSE /\ inflight' = << [webhook_id |-> webhook_id, request |-> request,
                               entry_id |-> registry[webhook_id],
                               fault |-> fault] >>
            /\ UNCHANGED response
    /\ UNCHANGED <<now, config, registry, unload_pc, latest_message, message_count,
                   message_history, cleanup_task, tasks, poll_pc, processed_sids,
                   call, ret,
                   binary_sensor>>

\* hass.data[DOMAIN] holds the data of the entry: from its setup until an
\* unload that succeeds, and not after a setup that failed.
EntryDataExists == unload_pc \notin {"unloaded", "setup_failed"}

\* handle_webhook from the parsed body to its response: the events of
\* PipelineResult are fired before _update_entities stores the message, so
\* the message-received event is fired on the store as it was.  Once the entry
\* was unloaded, hass.data holds no data of the domain: the lookup in
\* _update_entities raises, the error is logged there, and nothing is stored
\* and no refresh event is fired.
WebhookProcess ==
    /\ inflight # <<>>
    /\ hist.stores < MaxStores
    /\ \E c \in {inflight[1]} :
       \E r \in {PipelineResult(config, c.webhook_id, c.request,
                                 ParsedData(c.request, c.fault), c.fault)} :
       \E kept \in {IF EntryDataExists THEN r.stored ELSE <<>>} :
       \E st \in {IF kept = <<>> THEN StoreState
                  ELSE store_message(StoreState, kept[1], now)} :
       \E fired \in {IF kept = <<>> THEN r.fired ELSE Append(r.fired, DataUpdated)} :
           /\ bus' = bus \o fired
           /\ binary_sensor' = _handle_message_received(binary_sensor, fired, now)
           /\ latest_message' = st.latest_message
           /\ message_count' = st.message_count
           /\ message_history' = st.message_history
           /\ cleanup_task' = st.cleanup_task
           /\ tasks' = st.tasks
           /\ hist' = [hist EXCEPT
                          !.stores = IF kept = <<>> THEN @ ELSE @ + 1,
                          !.last_stored = IF kept = <<>> THEN @ ELSE kept,
                          !.appended_at[now] = IF kept = <<>> THEN @ ELSE @ + 1,
                          !.count_at_fire =
                              IF \E i \in 1..Len(r.fired) :
                                     r.fired[i].type = "smartsms_message_received"
                              THEN <<message_count>> ELSE @,
                          !.received =
                              IF \E i \in 1..Len(r.fired) :
                                     r.fired[i].type = "smartsms_message_received"
                              THEN @ + 1 ELSE @,
                          !.store_errors =
                              IF kept = <<>>
                                 /\ \E i \in 1..Len(r.fired) :
                                        r.fired[i].type = "smartsms_message_received"
                              THEN @ + 1 ELSE @]
           /\ Respond(c.webhook_id, c.request, r.status,
                      <<"smartsms_webhook_test">> \o Types(fired), kept,
                      r.raised)
    /\ inflight' = <<>>
    /\ UNCHANGED <<now, config, registry, unload_pc, poll_pc, processed_sids, call, ret>>

\* ------------------------------------------------------------------------
\* The prune task and the clock
\* ------------------------------------------------------------------------

\* A prune that sets the counter to the length of the history it leaves.
CleanupResetsCount ==
    /\ tasks.created > tasks.finished
    /\ message_history' = _cleanup_old_messages(message_history, now)
    /\ message_count' = Len(message_history')
    /\ tasks' = [tasks EXCEPT !.finished = @ + 1]
    /\ cleanup_task' = IF tasks'.finished = tasks.created THEN "done"
                       ELSE cleanup_task
    /\ hist' = [hist EXCEPT
           !.cleaned = @ + Len(message_history) - Len(message_history')]
    /\ UNCHANGED <<now, config, registry, unload_pc, latest_message, bus,
                   inflight, response, poll_pc, processed_sids, call, ret,
                   binary_sensor>>

\* A prune that filters the history as it was when the task was scheduled,
\* by the store_message call that left it one entry over the cap, and writes
\* that back when it runs.
CleanupFromSnapshot ==
    /\ tasks.created > tasks.finished
    /\ message_history' =
           _cleanup_old_messages(
               SubSeq(message_history, 1,
                      IF Len(message_history) > CleanupThreshold + 1
                      THEN CleanupThreshold + 1 ELSE Len(message_history)),
               now)
    /\ tasks' = [tasks EXCEPT !.finished = @ + 1]
    /\ cleanup_task' = IF tasks'.finished = tasks.created THEN "done"
                       ELSE cleanup_task
    /\ hist' = [hist EXCEPT
           !.cleaned = @ + Len(message_history) - Len(message_history')]
    /\ UNCHANGED <<now, config, registry, unload_pc, latest_message, message_count, bus,
                   inflight, response, poll_pc, processed_sids, call, ret,
                   binary_sensor>>

\* The oldest task _schedule_cleanup created runs _cleanup_old_messages.  It
\* does not suspend while it holds _lock, so it never waits for it.  The task
\* _cleanup_task refers to is the newest.
CleanupOldMessages ==
    /\ tasks.created > tasks.finished
    /\ message_history' = _cleanup_old_messages(message_history, now)
    /\ tasks' = [tasks EXCEPT !.finished = @ + 1]
    /\ cleanup_task' = IF tasks'.finished = tasks.created THEN "done"
                       ELSE cleanup_task
    /\ hist' = [hist EXCEPT
           !.cleaned = @ + Len(message_history) - Len(message_history')]
    /\ UNCHANGED <<now, config, registry, unload_pc, latest_message, message_count, bus,
                   inflight, response, poll_pc, processed_sids, call, ret,
                   binary_sensor>>

\* A caller (_update_entities) hands a message to store_message.
StoreCall(message_data) ==
    /\ hist.stores < MaxStores
    /\ LET st == store_message(StoreState, message_data, now)
       IN  /\ latest_message' = st.latest_message
           /\ message_count' = st.message_count
           /\ message_history' = st.message_history
           /\ cleanup_task' = st.cleanup_task
           /\ tasks' = st.tasks
    /\ hist' = [hist EXCEPT !.stores = @ + 1, !.last_stored = <<message_data>>,
                            !.appended_at[now] = @ + 1]
    /\ UNCHANGED <<now, config, registry, unload_pc, bus, inflight, response, poll_pc,
                   processed_sids, call, ret,
                   binary_sensor>>

Tick ==
    /\ now < MaxTime
    /\ now' = now + 1
    /\ UNCHANGED <<config, registry, unload_pc, latest_message, message_count,
                   message_history, cleanup_task, tasks, bus, inflight, response,
                   poll_pc, processed_sids, hist, call, ret,
                   binary_sensor>>

\* _reset_sensor: the callback of async_call_later is due and turns the
\* sensor of entry e off.
ResetSensor(e) ==
    /\ e \in DOMAIN binary_sensor
    /\ binary_sensor[e].reset_at # <<>>
    /\ now >= binary_sensor[e].reset_at[1]
    /\ binary_sensor' = [binary_sensor EXCEPT ![e] = SensorOff]
    /\ UNCHANGED <<now, config, registry, unload_pc, latest_message, message_count,
                   message_history, cleanup_task, tasks, bus, inflight, response,
                   poll_pc, processed_sids, hist, call, ret>>

\* ------------------------------------------------------------------------
\* poll_twilio_messages (__init__.py)
\* ------------------------------------------------------------------------

\* client.messages.list(limit=50), in messages of the model.
FetchLimit == 2
\* len(processed_sids) > 1000, in sids of the model.
SidCap == 2
\* A cut that keeps one sid more than the cap.
SidKeepOverCap == SidCap + 1

\* processed_sids_list[-500:]: half of the cap.
SidKeep == SidCap \div 2
\* msg.body[:1000], in characters of the model.
PollBodyLimit == 3

\* The lists client.messages.list can return: messages the provider holds
\* for the last 24 hours, at most FetchLimit of them, newest first (which is
\* by ascending sid, see ProviderMessage).
FetchResults ==
    {[i \in 1..Cardinality(S) |->
         CHOOSE x \in S : Cardinality({y \in S : y < x}) = i - 1] :
        S \in {T \in SUBSET Sids : Cardinality(T) <= FetchLimit}}

\* client.messages.list(date_sent_after=..., limit=50) when the provider
\* holds the messages held for the last 24 hours: the newest FetchLimit of
\* them, newest first.
MessagesList(held) ==
    LET listed == [i \in 1..Cardinality(held) |->
                      CHOOSE x \in held : Cardinality({y \in held : y < x}) = i - 1]
    IN  IF Len(listed) > FetchLimit THEN SubSeq(listed, 1, FetchLimit) ELSE listed

\* A loop that processes the messages in the order the provider listed them.
SortKeepsOrder(msgs) == msgs

\* list.sort(key=date_sent): a stable sort, ascending.
RECURSIVE SortByDateSent(_)
SortByDateSent(msgs) ==
    IF msgs = <<>> THEN <<>>
    ELSE LET front == SortByDateSent(SubSeq(msgs, 1, Len(msgs) - 1))
             x == msgs[Len(msgs)]
             before == SelectSeq(front, LAMBDA m : m.date_sent <= x.date_sent)
             after == SelectSeq(front, LAMBDA m : m.date_sent > x.date_sent)
         IN  before \o <<x>> \o after

\* The message_data the polling loop builds from a provider message.
PolledMessageData(msg) ==
    LET raw_body == Truncate(msg.body, PollBodyLimit)
    IN  [body |-> _sanitize_message_text(raw_body),
         raw_body |-> raw_body,
         sender |-> msg.from_,
         message_sid |-> msg.sid,
         provider |-> "twilio",
         matched_keywords |-> <<>>]

\* A loop that forgets the sid.
MarkProcessedForgets(processed, sid) == processed

\* processed_sids.add(msg.sid)
MarkProcessed(processed, sid) == processed \cup {sid}

\* A loop that marks the new messages processed and publishes nothing.
ProcessMarksOnly(new_messages, config_data, t, acc) ==
    [acc EXCEPT !.processed =
        @ \cup {new_messages[i].sid : i \in 1..Len(new_messages)}]

\* The body of "for msg in new_messages", folded over the sorted messages.
\* acc carries the store (st), the events fired (fired), processed_sids
\* (processed), the calls of store_message made (stored) and the sids a
\* message-received event was fired for (published) and the message_count
\* of the store when the last of these events was fired (count_at_fire): the
\* events are fired before _update_entities stores the message.
RECURSIVE ProcessNewMessages(_, _, _, _)
ProcessNewMessages(new_messages, config_data, t, acc) ==
    IF new_messages = <<>> THEN acc
    ELSE LET msg == new_messages[1]
             base == PolledMessageData(msg)
             matched_keywords == _check_keywords(config_data.keywords, base.body)
             message_data == [base EXCEPT !.matched_keywords = matched_keywords]
             next ==
                 IF ~_should_process_message(config_data, base)
                 THEN [acc EXCEPT !.processed = MarkProcessed(@, msg.sid)]
                 ELSE [st |-> store_message(acc.st, message_data, t),
                       fired |-> acc.fired
                           \o <<Event("smartsms_message_received", message_data)>>
                           \o (IF matched_keywords # <<>>
                               THEN <<Event("smartsms_keyword_matched", message_data)>>
                               ELSE <<>>)
                           \o <<DataUpdated>>,
                       processed |-> MarkProcessed(acc.processed, msg.sid),
                       stored |-> Append(acc.stored, message_data),
                       published |-> Append(acc.published, msg.sid),
                       count_at_fire |-> <<acc.st.message_count>>]
         IN  ProcessNewMessages(Tail(new_messages), config_data, t, next)

\* The other entry accepts a message (by its own webhook or polling task)
\* and fires its message-received event on the bus of the same hass; its
\* store is no part of this model.
OtherEntryPublishes(sid) ==
    /\ OtherEntryId \in DOMAIN binary_sensor
    /\ hist.other_published < MaxOtherEvents
    /\ \E fired \in {<<Event("smartsms_message_received",
                              PolledMessageData(ProviderMessage(sid)))>>} :
           /\ bus' = bus \o fired
           /\ binary_sensor' = _handle_message_received(binary_sensor, fired, now)
    /\ hist' = [hist EXCEPT !.other_published = @ + 1]
    /\ UNCHANGED <<now, config, registry, unload_pc, latest_message, message_count,
                   message_history, cleanup_task, tasks, inflight, response,
                   poll_pc, processed_sids, call, ret>>

\* The task enters its loop and awaits the first fetch.
PollStart ==
    /\ poll_pc = "start"
    /\ poll_pc' = "fetching"
    /\ UNCHANGED <<now, config, registry, unload_pc, latest_message, message_count,
                   message_history, cleanup_task, tasks, bus, inflight, response,
                   processed_sids, hist, call, ret,
                   binary_sensor>>

\* Number of occurrences of x in the sequence s.
Count(s, x) == Cardinality({i \in 1..Len(s) : s[i] = x})

\* One polling cycle, from the return of the fetch to the sleep: nothing in
\* between suspends the task.  When processed_sids has outgrown its cap, the
\* SidKeep sids that survive are the last ones of the set's iteration order,
\* which the program does not control.
PollCycle(fetched) ==
    /\ poll_pc = "fetching"
    /\ LET messages == [i \in 1..Len(fetched) |-> ProviderMessage(fetched[i])]
           inbound_messages == SelectSeq(messages, LAMBDA m : m.direction = "inbound")
           new_messages == SelectSeq(inbound_messages,
                                     LAMBDA m : m.sid \notin processed_sids)
           returned == {inbound_messages[i].sid : i \in 1..Len(inbound_messages)}
       IN  \E acc \in {ProcessNewMessages(SortByDateSent(new_messages), config, now,
                          [st |-> StoreState, fired |-> <<>>,
                           processed |-> processed_sids,
                           stored |-> <<>>, published |-> <<>>,
                           count_at_fire |-> hist.count_at_fire])} :
           /\ hist.stores + Len(acc.stored) <= MaxStores
           /\ bus' = bus \o acc.fired
           /\ binary_sensor' =
                  _handle_message_received(binary_sensor, acc.fired, now)
           /\ latest_message' = acc.st.latest_message
           /\ message_count' = acc.st.message_count
           /\ message_history' = acc.st.message_history
           /\ cleanup_task' = acc.st.cleanup_task
           /\ tasks' = acc.st.tasks
           /\ \E keep \in SUBSET acc.processed :
                /\ IF Cardinality(acc.processed) > SidCap
                   THEN Cardinality(keep) = SidKeep
                   ELSE keep = acc.processed
                /\ processed_sids' = keep
                /\ hist' = [hist EXCEPT
                       !.stores = @ + Len(acc.stored),
                       !.last_stored = IF acc.stored = <<>> THEN @
                                       ELSE <<acc.stored[Len(acc.stored)]>>,
                       !.returned = [s \in Sids |->
                           IF s \in returned /\ @[s] < 2 THEN @[s] + 1 ELSE @[s]],
                       !.published = [s \in Sids |-> @[s] + Count(acc.published, s)],
                       !.last_published = acc.published,
                       !.count_at_fire = acc.count_at_fire,
                       !.appended_at[now] = @ + Len(acc.stored),
                       !.received = @ + Len(acc.published),
                       !.last_evaluated =
                           {new_messages[i].sid : i \in 1..Len(new_messages)},
                       !.evicted = @ \cup (acc.processed \ keep)]
    /\ poll_pc' = "sleeping"
    /\ UNCHANGED <<now, config, registry, unload_pc, inflight, response, call, ret>>

\* A polling cycle in which the processing of the message after the first k
\* new ones raises (in the sort when k = 0, or while message_data is built):
\* the messages before it are processed, the rest of the loop and the
\* clean-up of processed_sids are skipped, and the except clause logs the
\* error and sleeps.
PollProcessError(fetched, k) ==
    /\ poll_pc = "fetching"
    /\ LET messages == [i \in 1..Len(fetched) |-> ProviderMessage(fetched[i])]
           inbound_messages == SelectSeq(messages, LAMBDA m : m.direction = "inbound")
           new_messages == SortByDateSent(
               SelectSeq(inbound_messages, LAMBDA m : m.sid \notin processed_sids))
           returned == {inbound_messages[i].sid : i \in 1..Len(inbound_messages)}
       IN  /\ k < Len(new_messages)
           /\ \E acc \in {ProcessNewMessages(SubSeq(new_messages, 1, k), config, now,
                              [st |-> StoreState, fired |-> <<>>,
                               processed |-> processed_sids,
                               stored |-> <<>>, published |-> <<>>,
                               count_at_fire |-> hist.count_at_fire])} :
               /\ hist.stores + Len(acc.stored) <= MaxStores
               /\ bus' = bus \o acc.fired
               /\ binary_sensor' =
                      _handle_message_received(binary_sensor, acc.fired, now)
               /\ latest_message' = acc.st.latest_message
               /\ message_count' = acc.st.message_count
               /\ message_history' = acc.st.message_history
               /\ cleanup_task' = acc.st.cleanup_task
               /\ tasks' = acc.st.tasks
               /\ processed_sids' = acc.processed
               /\ hist' = [hist EXCEPT
                      !.stores = @ + Len(acc.stored),
                      !.last_stored = IF acc.stored = <<>> THEN @
                                      ELSE <<acc.stored[Len(acc.stored)]>>,
                      !.returned = [s \in Sids |->
                          IF s \in returned /\ @[s] < 2 THEN @[s] + 1 ELSE @[s]],
                      !.published = [s \in Sids |-> @[s] + Count(acc.published, s)],
                      !.last_published = acc.published,
                      !.count_at_fire = acc.count_at_fire,
                      !.appended_at[now] = @ + Len(acc.stored),
                      !.received = @ + Len(acc.published),
                      !.last_evaluated = {new_messages[i].sid : i \in 1..k},
                      !.abandoned = @ \cup {new_messages[i].sid :
                                               i \in (k + 1)..Len(new_messages)}]
    /\ poll_pc' = "backoff"
    /\ UNCHANGED <<now, config, registry, unload_pc, inflight, response, call, ret>>

\* A fetch error that ends the task.
PollFetchErrorEnds ==
    /\ poll_pc = "fetching"
    /\ poll_pc' = "ended"
    /\ UNCHANGED <<now, config, registry, unload_pc, latest_message, message_count,
                   message_history, cleanup_task, tasks, bus, inflight, response,
                   processed_sids, hist, call, ret,
                   binary_sensor>>

\* The fetch raises: the except clause logs the error and sleeps.
PollFetchError ==
    /\ poll_pc = "fetching"
    /\ poll_pc' = "backoff"
    /\ UNCHANGED <<now, config, registry, unload_pc, latest_message, message_count,
                   message_history, cleanup_task, tasks, bus, inflight, response,
                   processed_sids, hist, call, ret,
                   binary_sensor>>

\* asyncio.sleep(60) returns, after a cycle ("sleeping") or in the except
\* clause ("backoff"), and the next cycle starts its fetch.
PollWake ==
    /\ poll_pc \in {"sleeping", "backoff"}
    /\ poll_pc' = "fetching"
    /\ hist' = [hist EXCEPT !.last_evaluated = {}]
    /\ UNCHANGED <<now, config, registry, unload_pc, latest_message, message_count,
                   message_history, cleanup_task, tasks, bus, inflight, response,
                   processed_sids, call, ret,
                   binary_sensor>>

\* A cancellation that the except clause of the loop catches: the task
\* sleeps and goes on.
PollCancelCaught ==
    /\ unload_pc = "loaded"
    /\ poll_pc \in {"start", "fetching", "sleeping", "backoff"}
    /\ poll_pc' = "backoff"
    /\ unload_pc' = "task_awaited"
    /\ UNCHANGED <<now, config, registry, latest_message, message_count,
                   message_history, cleanup_task, tasks, bus, inflight, response,
                   processed_sids, hist, call, ret,
                   binary_sensor>>

\* async_unload_entry cancels the task and awaits it: CancelledError is
\* raised where the task is suspended (or when it is first run), passes the
\* except clause (it is no Exception) and ends the task.
PollCancel ==
    /\ unload_pc = "loaded"
    /\ poll_pc \in {"start", "fetching", "sleeping", "backoff"}
    /\ poll_pc' = "cancelled"
    /\ unload_pc' = "task_awaited"
    /\ UNCHANGED <<now, config, registry, latest_message, message_count,
                   message_history, cleanup_task, tasks, bus, inflight, response,
                   processed_sids, hist, call, ret,
                   binary_sensor>>

\* An unregistration that leaves the mapping in place.
UnregisterKeepsMapping ==
    /\ unload_pc = "task_awaited"
    /\ unload_pc' = "platforms"
    /\ UNCHANGED <<now, config, registry, latest_message, message_count,
                   message_history, cleanup_task, tasks, bus, inflight, response,
                   poll_pc, processed_sids, hist, call, ret,
                   binary_sensor>>

\* async_unload_entry once the task is done: async_unregister_webhook pops
\* the webhook id from _WEBHOOK_TO_ENTRY, and the unload of the platforms is
\* awaited.
UnloadUnregister ==
    /\ unload_pc = "task_awaited"
    /\ registry' = [w \in DOMAIN registry \ {WebhookId} |-> registry[w]]
    /\ unload_pc' = "platforms"
    /\ UNCHANGED <<now, config, latest_message, message_count,
                   message_history, cleanup_task, tasks, bus, inflight, response,
                   poll_pc, processed_sids, hist, call, ret,
                   binary_sensor>>

\* async_unload_entry from the return of async_unload_platforms: when the
\* platforms were unloaded (and with them the entry's binary sensor and its
\* listener removed), data_store.cleanup cancels a prune task that is not
\* done and the entry's data is removed from hass.data; else the data stays
\* and the unload returns False.
UnloadFinish(unload_ok) ==
    /\ unload_pc = "platforms"
    /\ IF unload_ok
       THEN /\ cleanup_task' = IF cleanup_task = "pending" THEN "done"
                                ELSE cleanup_task
            /\ tasks' = [tasks EXCEPT !.finished = tasks.created]
            /\ latest_message' = <<>>
            /\ message_count' = 0
            /\ message_history' = <<>>
            /\ hist' = [hist EXCEPT !.appended_at = [t \in 0..MaxTime |-> 0]]
            /\ binary_sensor' = [e \in DOMAIN binary_sensor \ {EntryId} |->
                                     binary_sensor[e]]
            /\ unload_pc' = "unloaded"
       ELSE /\ unload_pc' = "unload_failed"
            /\ UNCHANGED <<cleanup_task, tasks, latest_message, message_count,
                           message_history, hist, binary_sensor>>
    /\ UNCHANGED <<now, config, registry, bus, inflight, response, poll_pc,
                   processed_sids, call, ret>>

\* async_setup_entry of the entry after it was unloaded, when a step after
\* async_register_webhook raises (the setup of the platforms or the device
\* registry): the webhook id is mapped to the entry id, the except clause
\* removes the entry's data from hass.data and raises ConfigEntryNotReady;
\* the polling task, which is created last, was not started.
SetupEntryFails ==
    /\ unload_pc \in {"unloaded", "setup_failed"}
    /\ registry' = [w \in DOMAIN registry \cup {WebhookId} |->
                        IF w = WebhookId THEN EntryId ELSE registry[w]]
    /\ unload_pc' = "setup_failed"
    /\ UNCHANGED <<now, config, latest_message, message_count, message_history,
                   cleanup_task, tasks, bus, inflight, response, poll_pc,
                   processed_sids, binary_sensor, hist, call, ret>>

\* async_setup_entry of the entry after it was unloaded: a new data store
\* and entry data, the webhook id mapped to the entry id by
\* async_register_webhook, the entry's binary sensor added by the platform
\* setup, and a new polling task.
SetupEntry ==
    /\ unload_pc \in {"unloaded", "setup_failed"}
    /\ registry' = [w \in DOMAIN registry \cup {WebhookId} |->
                        IF w = WebhookId THEN EntryId ELSE registry[w]]
    /\ latest_message' = <<>>
    /\ message_count' = 0
    /\ message_history' = <<>>
    /\ cleanup_task' = "none"
    /\ poll_pc' = "start"
    /\ processed_sids' = {}
    /\ unload_pc' = "loaded"
    /\ binary_sensor' = [e \in DOMAIN binary_sensor \cup {EntryId} |->
                             IF e = EntryId THEN SensorOff ELSE binary_sensor[e]]
    /\ hist' = [hist EXCEPT !.received = 0, !.store_errors = 0]
    /\ UNCHANGED <<now, config, tasks, bus, inflight, response, call, ret>>

\* ------------------------------------------------------------------------
\* The integration after async_setup_entry
\* ------------------------------------------------------------------------

\* Observations: the calls of store_message made and the message of the
\* last one, the calls of handle_webhook, per sid the polling cycles that
\* returned it (counted up to 2) and the message-received events the polling
\* task fired for it, the sids evicted from processed_sids, the new sids a
\* polling cycle left unprocessed when an error ended it, the sids the last
\* polling cycle published in order, the sids the polling cycle since the last
\* sleep handed to the sender filter, the message_count the store held when
\* the last message-received event was fired, the entries prunes removed
\* (the cleaned_count the prune logs), and per clock tick the entries
\* store_message appended to the history of the present store at that tick,
\* the message-received events the other entry fired, and, since the last
\* setup of the entry, the message-received events fired for it and the
\* calls of _update_entities that stored nothing.
\* No prune task was created yet.
NoTasks == [created |-> 0, finished |-> 0]

NoHist ==
    [stores |-> 0, last_stored |-> <<>>, deliveries |-> 0,
     returned |-> [s \in Sids |-> 0], published |-> [s \in Sids |-> 0],
     evicted |-> {}, abandoned |-> {}, last_published |-> <<>>,
     last_evaluated |-> {}, count_at_fire |-> <<>>, cleaned |-> 0,
     appended_at |-> [t \in 0..MaxTime |-> 0], other_published |-> 0,
     received |-> 0, store_errors |-> 0]

Init ==
    /\ now = 0
    /\ config \in Configs
    /\ registry = [w \in {WebhookId} |-> EntryId]
    /\ latest_message = <<>>
    /\ message_count = 0
    /\ message_history = <<>>
    /\ cleanup_task = "none"
    /\ tasks = NoTasks
    /\ bus = <<>>
    /\ inflight = <<>>
    /\ response = <<>>
    /\ poll_pc = "start"
    /\ unload_pc = "loaded"
    /\ binary_sensor = [e \in {EntryId} |-> SensorOff]
    /\ processed_sids = {}
    /\ hist = NoHist
    /\ call = <<>>
    /\ ret = <<>>

NextWebhook ==
    \/ \E w \in {WebhookId, UnknownWebhookId}, r \in Requests :
           WebhookReceive(w, r, "none")
    \/ WebhookProcess

NextPoll ==
    \/ PollStart
    \/ \E f \in FetchResults : PollCycle(f)
    \/ PollFetchError
    \/ PollWake

\* In the runs explored with errors, fetches return messages until this many
\* messages were stored.
MaxPollStores == 2

\* The polling task when the processing of a message can raise and the task
\* can be cancelled.
NextPollErrors ==
    \/ PollStart
    \/ \E f \in FetchResults : hist.stores < MaxPollStores /\ PollCycle(f)
    \/ PollFetchError
    \/ PollWake
    \/ \E f \in FetchResults, k \in 0..(FetchLimit - 1) :
           hist.stores < MaxPollStores /\ PollProcessError(f, k)
    \/ PollCancel

\* async_unload_entry after it has cancelled the polling task.
NextUnload ==
    \/ UnloadUnregister
    \/ \E unload_ok \in BOOLEAN : UnloadFinish(unload_ok)

\* The polling task while the entry is loaded, and the unload of the entry.
NextPollUnload ==
    \/ PollStart
    \/ \E f \in FetchResults : hist.stores < MaxPollStores /\ PollCycle(f)
    \/ PollFetchError
    \/ PollWake
    \/ PollCancel
    \/ NextUnload

\* Webhook deliveries while the entry is unloaded and set up again.
NextWebhookUnload ==
    \/ NextWebhook
    \/ PollCancel
    \/ NextUnload
    \/ SetupEntry

NextPrune ==
    \/ CleanupOldMessages
    \/ Tick

Next ==
    \/ NextWebhook
    \/ NextPoll
    \/ \E f \in FetchResults, k \in 0..(FetchLimit - 1) : PollProcessError(f, k)
    \/ PollCancel
    \/ NextUnload
    \/ SetupEntry
    \/ SetupEntryFails
    \/ NextPrune
    \/ ResetSensor(EntryId)

\* The integration: webhook deliveries, the polling task, the prune task.
Spec == Init /\ [][Next]_vars

\* The webhook dispatcher alone.
SpecWebhook == Init /\ [][NextWebhook]_vars

\* Deliveries in which a step of the pipeline raises an error.
FaultRequests ==
    {r \in Requests :
        /\ r.content_length = 0
        /\ r.size <= PayloadLimit
        /\ \/ r.enc = "form" /\ r.From # ""
           \/ r.enc = "json_list"}

NextWebhookFaults ==
    \/ \E r \in FaultRequests, fault \in Faults : WebhookReceive(WebhookId, r, fault)
    \/ WebhookProcess

\* The webhook dispatcher when steps of the pipeline raise.
SpecWebhookFaults == Init /\ [][NextWebhookFaults]_vars

\* The polling task alone.
SpecPoll == Init /\ [][NextPoll]_vars

\* The webhook dispatcher of an instance without filters across the unload
\* and the next setup of the entry.
InitWebhookUnload == Init /\ config = NoFilters

SpecWebhookUnload == InitWebhookUnload /\ [][NextWebhookUnload]_vars

\* The polling task of an instance without filters, with errors in the
\* processing of messages and with cancellation.  asyncio.sleep(60) returns
\* unless the task is cancelled.
InitPollErrors == Init /\ config = NoFilters

SpecPollErrors ==
    InitPollErrors /\ [][NextPollErrors]_vars /\ WF_vars(PollWake)

\* The polling task of an instance without filters and its unload.
SpecPollUnload == InitPollErrors /\ [][NextPollUnload]_vars

\* ------------------------------------------------------------------------
\* The data store under its callers
\* ------------------------------------------------------------------------

\* Messages handed to store_message.
StoreMessages ==
    {[body |-> b, sender |-> Sender1, message_sid |-> 1, provider |-> "twilio",
      matched_keywords |-> <<>>] : b \in {HelloWorld, Hi}}

NextStore ==
    \/ \E m \in StoreMessages : StoreCall(m)
    \/ NextPrune

\* A freshly set-up store, its callers and its prune task.
InitStore == Init /\ config = NoFilters

SpecStore == InitStore /\ [][NextStore]_vars

\* History entries as store_message writes them and as it does not.
LegacyEntries ==
    LET message == CHOOSE m \in StoreMessages : TRUE
    IN  {[message |-> message, stored_at |-> [kind |-> k, t |-> 0]] :
            k \in {"absent", "garbage", "naive", "nonstring"}}
        \cup {[message |-> message, stored_at |-> IsoFormat(t)] : t \in 0..MaxTime}

\* Longest history a prune is applied to.
MaxLegacy == 2

\* A prune is due on a history of any content.
InitPrune ==
    /\ now \in 0..MaxTime
    /\ config = NoFilters
    /\ registry = [w \in {WebhookId} |-> EntryId]
    /\ latest_message = <<>>
    /\ message_count = 0
    /\ message_history \in UNION {[1..n -> LegacyEntries] : n \in 0..MaxLegacy}
    /\ cleanup_task = "pending"
    /\ tasks = [created |-> 1, finished |-> 0]
    /\ bus = <<>>
    /\ inflight = <<>>
    /\ response = <<>>
    /\ poll_pc = "start"
    /\ unload_pc = "loaded"
    /\ binary_sensor = [e \in {EntryId} |-> SensorOff]
    /\ processed_sids = {}
    /\ hist = NoHist
    /\ call = <<>>
    /\ ret = <<>>

SpecPrune == InitPrune /\ [][NextPrune]_vars

\* ------------------------------------------------------------------------
\* The sender filter on its own
\* ------------------------------------------------------------------------

\* A third sender, on no list of Configs.
Sender3 == "+61400000000"

InitFilter ==
    /\ call \in {<<[sender |-> s, sender_whitelist |-> w, sender_blacklist |-> b]>> :
                    s \in Senders \cup {Sender3},
                    w \in SUBSET (Senders \cup {Sender3}),
                    b \in SUBSET (Senders \cup {Sender3})}
    /\ ret = <<>>
    /\ now = 0
    /\ config = NoFilters
    /\ registry = [w \in {WebhookId} |-> EntryId]
    /\ latest_message = <<>>
    /\ message_count = 0
    /\ message_history = <<>>
    /\ cleanup_task = "none"
    /\ tasks = NoTasks
    /\ bus = <<>>
    /\ inflight = <<>>
    /\ response = <<>>
    /\ poll_pc = "start"
    /\ unload_pc = "loaded"
    /\ binary_sensor = [e \in {EntryId} |-> SensorOff]
    /\ processed_sids = {}
    /\ hist = NoHist

ApplyFilter ==
    /\ call # <<>>
    /\ ret = <<>>
    /\ ret' = << _should_process_message(
                    [sender_whitelist |-> call[1].sender_whitelist,
                     sender_blacklist |-> call[1].sender_blacklist],
                    [sender |-> call[1].sender]) >>
    /\ UNCHANGED <<now, config, registry, unload_pc, latest_message, message_count,
                   message_history, cleanup_task, tasks, bus, inflight, response,
                   poll_pc, processed_sids, hist, call,
                   binary_sensor>>

SpecFilter == InitFilter /\ [][ApplyFilter]_vars

\* ------------------------------------------------------------------------
\* The keyword matcher on its own
\* ------------------------------------------------------------------------

\* Longest keyword list of a call.
MaxKeywords == 3

\* Keywords: literals in both cases, one that the bodies do not contain, a
\* pattern, an anchored pattern and an invalid pattern.
Keywords ==
    {[kind |-> "lit", text |-> <<"h">>],
     [kind |-> "lit", text |-> <<"W">>],
     [kind |-> "lit", text |-> <<"z">>],
     [kind |-> "regex", valid |-> TRUE, anchored |-> FALSE, text |-> <<"w">>],
     [kind |-> "regex", valid |-> TRUE, anchored |-> TRUE, text |-> <<"H">>],
     [kind |-> "regex", valid |-> FALSE, anchored |-> FALSE, text |-> <<"(">>]}

KeywordLists == UNION {[1..n -> Keywords] : n \in 0..MaxKeywords}

InitKeywords ==
    /\ call \in {<<[keywords |-> ks, message_body |-> b]>> :
                    ks \in KeywordLists, b \in {HelloWorld, Hi, <<"H">>}}
    /\ ret = <<>>
    /\ now = 0
    /\ config = NoFilters
    /\ registry = [w \in {WebhookId} |-> EntryId]
    /\ latest_message = <<>>
    /\ message_count = 0
    /\ message_history = <<>>
    /\ cleanup_task = "none"
    /\ tasks = NoTasks
    /\ bus = <<>>
    /\ inflight = <<>>
    /\ response = <<>>
    /\ poll_pc = "start"
    /\ unload_pc = "loaded"
    /\ binary_sensor = [e \in {EntryId} |-> SensorOff]
    /\ processed_sids = {}
    /\ hist = NoHist

ApplyKeywords ==
    /\ call # <<>>
    /\ ret = <<>>
    /\ ret' = << _check_keywords(call[1].keywords, call[1].message_body) >>
    /\ UNCHANGED <<now, config, registry, unload_pc, latest_message, message_count,
                   message_history, cleanup_task, tasks, bus, inflight, response,
                   poll_pc, processed_sids, hist, call,
                   binary_sensor>>

SpecKeywords == InitKeywords /\ [][ApplyKeywords]_vars

\* Instances without sender lists whose keyword list holds an invalid
\* pattern.
InvalidKeywordConfigs ==
    {[NoFilters EXCEPT !.keywords = ks] :
        ks \in {l \in KeywordLists :
                   \E i \in 1..Len(l) : l[i].kind = "regex" /\ ~l[i].valid}}

\* Deliveries of a message with a body and a sender.
KeywordRequests ==
    {r \in Requests :
        /\ r.enc = "form"
        /\ r.From = Sender1
        /\ r.Body \in {HelloWorld, Hi}
        /\ r.content_length = 0
        /\ r.size <= PayloadLimit
        /\ r.signature = "valid"}

InitWebhookKeywords ==
    /\ config \in InvalidKeywordConfigs
    /\ call = <<>>
    /\ ret = <<>>
    /\ now = 0
    /\ registry = [w \in {WebhookId} |-> EntryId]
    /\ latest_message = <<>>
    /\ message_count = 0
    /\ message_history = <<>>
    /\ cleanup_task = "none"
    /\ tasks = NoTasks
    /\ bus = <<>>
    /\ inflight = <<>>
    /\ response = <<>>
    /\ poll_pc = "start"
    /\ unload_pc = "loaded"
    /\ binary_sensor = [e \in {EntryId} |-> SensorOff]
    /\ processed_sids = {}
    /\ hist = NoHist

NextWebhookKeywords ==
    \/ \E r \in KeywordRequests : WebhookReceive(WebhookId, r, "none")
    \/ WebhookProcess

\* Deliveries of a message and of the test message.
MessageRequests ==
    KeywordRequests
        \cup {r \in Requests : r.Body = TestFromCurl /\ r.From = Sender1}

\* Both paths of an instance with keywords: deliveries of messages to the
\* webhook and polling cycles.
NextBothPaths ==
    \/ \E r \in MessageRequests : WebhookReceive(WebhookId, r, "none")
    \/ WebhookProcess
    \/ PollStart
    \/ \E f \in FetchResults : hist.stores < MaxPollStores /\ PollCycle(f)
    \/ PollWake

InitBothPaths == Init /\ config.keywords # <<>>

SpecBothPaths == InitBothPaths /\ [][NextBothPaths]_vars

\* Deliveries in which store_message raises, across the unload and the next
\* setup of the entry.
NextWebhookStoreFaults ==
    \/ \E r \in MessageRequests, fault \in {"none", "store"} :
           WebhookReceive(WebhookId, r, fault)
    \/ WebhookProcess
    \/ PollCancel
    \/ NextUnload
    \/ SetupEntry

\* Deliveries of one message (in which store_message may raise), polling
\* cycles that fetch one message, unload and setup of one entry, interleaved.
NextInterleaved ==
    \/ \E r \in {k \in KeywordRequests : k.Body = HelloWorld},
          fault \in {"none", "store"} : WebhookReceive(WebhookId, r, fault)
    \/ WebhookProcess
    \/ PollStart
    \/ \E f \in {l \in FetchResults : Len(l) = 1 /\ l[1] \in OtherSids} :
           hist.stores < MaxPollStores /\ PollCycle(f)
    \/ PollWake
    \/ PollCancel
    \/ NextUnload
    \/ SetupEntry

SpecInterleaved == InitWebhookUnload /\ [][NextInterleaved]_vars

\* Deliveries of a message while the entry is unloaded and set up again,
\* with setups that fail.
NextSetupFailure ==
    \/ \E r \in KeywordRequests : WebhookReceive(WebhookId, r, "none")
    \/ WebhookProcess
    \/ PollCancel
    \/ NextUnload
    \/ SetupEntry
    \/ SetupEntryFails

SpecSetupFailure == InitWebhookUnload /\ [][NextSetupFailure]_vars

\* The webhook dispatcher of an instance without filters when the update of
\* the store fails.
SpecWebhookStoreFaults == InitWebhookUnload /\ [][NextWebhookStoreFaults]_vars

\* The polling task of an instance whose provider holds the same messages
\* for the last 24 hours in every cycle (call[1].held).
InitHoldings ==
    /\ call \in {<<[held |-> H]>> : H \in SUBSET Sids}
    /\ ret = <<>>
    /\ now = 0
    /\ config \in Configs
    /\ registry = [w \in {WebhookId} |-> EntryId]
    /\ latest_message = <<>>
    /\ message_count = 0
    /\ message_history = <<>>
    /\ cleanup_task = "none"
    /\ tasks = NoTasks
    /\ bus = <<>>
    /\ inflight = <<>>
    /\ response = <<>>
    /\ poll_pc = "start"
    /\ unload_pc = "loaded"
    /\ binary_sensor = [e \in {EntryId} |-> SensorOff]
    /\ processed_sids = {}
    /\ hist = NoHist

NextHoldings ==
    \/ PollStart
    \/ PollCycle(MessagesList(call[1].held))
    \/ PollWake

SpecHoldings == InitHoldings /\ [][NextHoldings]_vars

\* Two entries set up in one hass, each with its binary sensor: the webhook
\* of the first, the messages the other receives, and the clock.
InitTwoEntries ==
    /\ binary_sensor = [e \in {EntryId, OtherEntryId} |-> SensorOff]
    /\ call = <<>>
    /\ ret = <<>>
    /\ now = 0
    /\ config = NoFilters
    /\ registry = [w \in {WebhookId} |-> EntryId]
    /\ latest_message = <<>>
    /\ message_count = 0
    /\ message_history = <<>>
    /\ cleanup_task = "none"
    /\ tasks = NoTasks
    /\ bus = <<>>
    /\ inflight = <<>>
    /\ response = <<>>
    /\ poll_pc = "start"
    /\ unload_pc = "loaded"
    /\ processed_sids = {}
    /\ hist = NoHist

NextTwoEntries ==
    \/ \E r \in {k \in KeywordRequests : k.Body = HelloWorld} :
           WebhookReceive(WebhookId, r, "none")
    \/ WebhookProcess
    \/ \E sid \in OtherSids : OtherEntryPublishes(sid)
    \/ \E e \in {EntryId, OtherEntryId} : ResetSensor(e)
    \/ Tick

SpecTwoEntries == InitTwoEntries /\ [][NextTwoEntries]_vars

\* The webhook dispatcher of instances with an invalid pattern configured.
SpecWebhookKeywords == InitWebhookKeywords /\ [][NextWebhookKeywords]_vars

\* ------------------------------------------------------------------------
\* The text sanitizer on its own
\* ------------------------------------------------------------------------

\* Longest text handed to the sanitizer.
MaxTextLen == 4

\* The characters of the texts: whitespace, a percent-escape ("%22"), a
\* character reference ("&lt"), a markdown character and a character outside
\* ASCII.
TextChars == {" ", "TAB", "%", "2", "&", "<", "l", "t", "U+00E9"}

Texts == UNION {[1..n -> TextChars] : n \in 0..MaxTextLen}

InitSanitize ==
    /\ call \in {<<[text |-> x]>> : x \in Texts}
    /\ ret = <<>>
    /\ now = 0
    /\ config = NoFilters
    /\ registry = [w \in {WebhookId} |-> EntryId]
    /\ latest_message = <<>>
    /\ message_count = 0
    /\ message_history = <<>>
    /\ cleanup_task = "none"
    /\ tasks = NoTasks
    /\ bus = <<>>
    /\ inflight = <<>>
    /\ response = <<>>
    /\ poll_pc = "start"
    /\ unload_pc = "loaded"
    /\ binary_sensor = [e \in {EntryId} |-> SensorOff]
    /\ processed_sids = {}
    /\ hist = NoHist

\* The sanitizer is applied to the text, then to its own result.
ApplySanitize ==
    /\ call # <<>>
    /\ Len(ret) < 2
    /\ ret' = Append(ret, _sanitize_message_text(
                              IF ret = <<>> THEN call[1].text ELSE ret[Len(ret)]))
    /\ UNCHANGED <<now, config, registry, unload_pc, latest_message, message_count,
                   message_history, cleanup_task, tasks, bus, inflight, response,
                   poll_pc, processed_sids, hist, call,
                   binary_sensor>>

SpecSanitize == InitSanitize /\ [][ApplySanitize]_vars

\* ------------------------------------------------------------------------
\* Properties
\* ------------------------------------------------------------------------

Min(a, b) == IF a < b THEN a ELSE b

\* C1 as stated: the filter answers false when the whitelist is non-empty and
\* lacks the sender, false when the whitelist is empty and the blacklist
\* holds the sender, and true in every other case.
C1_FilterAsStated ==
    ret # <<>> =>
        LET S == call[1].sender
            W == call[1].sender_whitelist
            B == call[1].sender_blacklist
        IN  ret[1] = (IF W # {} /\ S \notin W THEN FALSE
                      ELSE IF W = {} /\ S \in B THEN FALSE
                      ELSE TRUE)

\* C1, amended: the filter answers false when the whitelist is non-empty and
\* lacks the sender, false when the blacklist holds the sender (whether or
\* not the whitelist is empty), and true in every other case.
C1_FilterDecision ==
    ret # <<>> =>
        LET S == call[1].sender
            W == call[1].sender_whitelist
            B == call[1].sender_blacklist
        IN  ret[1] = ~((W # {} /\ S \notin W) \/ S \in B)

\* A sender on both lists has been filtered.
C1_Witness ==
    /\ ret = <<FALSE>>
    /\ call[1].sender \in call[1].sender_whitelist
    /\ call[1].sender \in call[1].sender_blacklist

\* C2: after N calls of store_message on a freshly set-up store, with prunes
\* running at any point, message_count is N and latest_message is the
\* message of the N-th call.
C2_CountAndLatest ==
    /\ message_count = hist.stores
    /\ latest_message = hist.last_stored

\* Several messages are stored and a prune has removed entries.
C2_Witness ==
    /\ hist.stores > CleanupThreshold
    /\ cleanup_task = "done"
    /\ hist.cleaned > 0
    /\ message_count = hist.stores

\* C3 as stated: once no prune is pending, the history holds min(N, cap)
\* entries after N calls of store_message.
C3_LengthAsStated ==
    cleanup_task # "pending" =>
        Len(message_history) = Min(hist.stores, CleanupThreshold)

\* C3, amended: after N calls of store_message the history holds N entries
\* less those prunes removed for their age, and prunes remove none before the
\* first entry is as old as the retention horizon; the cap only triggers the
\* prune and does not bound the length.
C3_LengthIsStoresLessAged ==
    /\ Len(message_history) = hist.stores - hist.cleaned
    /\ now < RetentionTicks => hist.cleaned = 0

\* A prune has run on a history longer than the cap and left it whole.
C3_Witness ==
    /\ cleanup_task = "done"
    /\ Len(message_history) > CleanupThreshold
    /\ Len(message_history) = hist.stores

\* C4 as stated: a prune removes the entries stored before now minus the
\* retention horizon and keeps those stored at the horizon or later.
C4_PruneKeepsBoundary ==
    [][CleanupOldMessages =>
          message_history' =
              SelectSeq(message_history,
                        LAMBDA e : e.stored_at.t >= now - RetentionTicks)]_vars

\* An entry whose storage timestamp is absent or cannot be parsed or compared.
Unparseable(e) == e.stored_at.kind # "aware"

\* C5: a prune keeps every entry whose storage timestamp is absent or cannot
\* be parsed or compared, whatever the age of the other entries.
C5_UnparseableRetained ==
    [][CleanupOldMessages =>
          SelectSeq(message_history', Unparseable)
              = SelectSeq(message_history, Unparseable)]_vars

\* A prune has removed an entry and kept one it could not date.
C5_Witness ==
    /\ cleanup_task = "done"
    /\ hist.cleaned > 0
    /\ \E i \in 1..Len(message_history) :
           message_history[i].stored_at.kind \in {"absent", "garbage", "naive"}

\* The sender filter's answer for the provider message of a sid.
PolledPasses(sid) ==
    _should_process_message(config, [sender |-> ProviderMessage(sid).from_])

Dispatched ==
    /\ response # <<>>
    /\ response[1].webhook_id \in DOMAIN registry
    /\ ~(response[1].request.content_length > PayloadLimit)

\* The payload of the last response, as parsed.
Parsed == _parse_request_data(response[1].request)

\* C7 as stated: a delivery to a registered webhook id whose parsed payload
\* has no body or no sender yields no record and is answered 400.
C7_MissingFieldsAnswered400 ==
    (/\ Dispatched
     /\ \/ Get(Parsed.fields, "Body", <<>>) = <<>>
        \/ Get(Parsed.fields, "From", "") = "")
    => /\ response[1].status = 400
       /\ response[1].stored = <<>>

\* C8 as stated: a delivery accepted with no filters configured stores the
\* sanitized payload body and the payload sender and fires exactly one
\* message-received event.
C8_AcceptedStoredSanitized ==
    (/\ Dispatched
     /\ config.sender_whitelist = {}
     /\ config.sender_blacklist = {}
     /\ response[1].status = 200
     /\ response[1].stored # <<>>)
    => LET body == response[1].stored[1].body
       IN  /\ body = _sanitize_message_text(Parsed.fields["Body"])
           /\ \A i \in 1..Len(body) : body[i] \notin MarkdownChars
           /\ response[1].stored[1].sender = Get(Parsed.fields, "From", "")
           /\ Count(response[1].events, "smartsms_message_received") = 1

\* C9 as stated: a delivery whose sender the filter rejects is answered 200,
\* adds no record to the store and publishes no event.
C9_FilteredIsSilent ==
    (/\ Dispatched
     /\ _extract_message_data(Parsed.fields) # <<>>
     /\ ~_should_process_message(config, _extract_message_data(Parsed.fields)[1]))
    => /\ response[1].status = 200
       /\ response[1].stored = <<>>
       /\ response[1].events = <<>>

\* C10 as stated: a request for a webhook id outside the registry is
\* answered 404 whatever its size.
C10_UnknownAlways404 ==
    (response # <<>> /\ response[1].webhook_id \notin DOMAIN registry)
    => response[1].status = 404

\* C10, amended: a request for a webhook id outside the registry is answered
\* 413 when its declared content length exceeds the payload limit and 404
\* otherwise: the size check precedes the lookup.
C10_UnknownIs404Or413 ==
    (response # <<>> /\ response[1].webhook_id \notin DOMAIN registry)
    => response[1].status =
           IF response[1].request.content_length > PayloadLimit THEN 413 ELSE 404

\* A request within the limit for an unknown webhook id was answered 404, with
\* the instance's own webhook id registered.
C10_Witness ==
    /\ response # <<>>
    /\ response[1].webhook_id = UnknownWebhookId
    /\ response[1].request.content_length = 100
    /\ response[1].status = 404
    /\ WebhookId \in DOMAIN registry

\* C11 as stated: a request to a registered webhook id whose body exceeds the
\* payload limit is answered 413 and is neither stored nor published as a
\* message-received event, whether or not it declares its content length.
C11_OversizeAnswered413 ==
    (/\ response # <<>>
     /\ response[1].webhook_id \in DOMAIN registry
     /\ response[1].request.size > PayloadLimit)
    => /\ response[1].status = 413
       /\ response[1].stored = <<>>
       /\ Count(response[1].events, "smartsms_message_received") = 0

\* The statuses handle_webhook answers with.
ResponseStatuses == {200, 400, 403, 404, 413, 500}

\* C12 as stated: every call of handle_webhook ends with a response whose
\* status is one of 200, 400, 403, 404, 413 and 500, and an error raised in
\* any step of the pipeline is answered 500.
C12_EveryErrorAnswered500 ==
    response # <<>> =>
        /\ response[1].status \in ResponseStatuses
        /\ response[1].raised # "" => response[1].status = 500

\* C12, amended: every call of handle_webhook ends with a response whose
\* status is one of 200, 400, 403, 404, 413 and 500 and no error leaves the
\* handler; an error raised in the handler's own statements, the filter, the
\* keyword match or the publication of the message-received event is answered
\* 500 with nothing stored, an error raised inside the parse or the extract
\* step is caught there and answered 400, and an error raised inside the
\* store step is caught there and the delivery is answered 200.
C12_ErrorsAnsweredWhereCaught ==
    response # <<>> =>
        /\ response[1].status \in ResponseStatuses
        /\ response[1].raised \in {"handler", "filter", "keywords", "fire"}
               => response[1].status = 500 /\ response[1].stored = <<>>
        /\ response[1].raised \in {"parse", "extract"}
               => response[1].status = 400 /\ response[1].stored = <<>>
        /\ response[1].raised = "store"
               => response[1].status = 200 /\ response[1].stored = <<>>

\* An error raised in the keyword match of an accepted delivery was answered
\* 500.
C12_Witness ==
    /\ response # <<>>
    /\ response[1].raised = "keywords"
    /\ response[1].status = 500
    /\ _extract_message_data(Parsed.fields) # <<>>

\* C13 as stated: sanitizing a sanitized text gives the same text.
C13_SanitizeIdempotent ==
    Len(ret) = 2 => ret[2] = ret[1]

\* A text is printable ASCII without markdown characters, without a space at
\* either end and without two spaces in a row.
IsClean(s) ==
    /\ \A i \in 1..Len(s) :
           /\ 32 <= Ord(s[i]) /\ Ord(s[i]) <= 126
           /\ s[i] \notin MarkdownChars
    /\ s # <<>> => s[1] # " " /\ s[Len(s)] # " "
    /\ \A i \in 1..(Len(s) - 1) : ~(s[i] = " " /\ s[i + 1] = " ")

\* C14: the output of _sanitize_message_text holds only printable ASCII
\* characters, none of the markdown characters, no space at either end and
\* no run of two or more spaces.
C14_OutputIsClean ==
    \A i \in 1..Len(ret) : IsClean(ret[i])

\* A text with a tab, a markdown character and a character outside ASCII was
\* sanitized to a text that is not empty.
C14_Witness ==
    /\ Len(ret) >= 1
    /\ ret[1] # <<>>
    /\ \E i, j, k \in 1..Len(call[1].text) :
           /\ call[1].text[i] = "TAB"
           /\ call[1].text[j] = "<"
           /\ call[1].text[k] = "U+00E9"

\* C15 as stated: the record _extract_message_data makes from a payload with
\* a body and a sender has a body of at most 1000 characters (PollBodyLimit,
\* the length the polling task cuts to) and carries the tag of the provider,
\* twilio.
C15_RecordWithinLimit ==
    (/\ Dispatched
     /\ Parsed.kind = "mapping"
     /\ Get(Parsed.fields, "Body", <<>>) \notin {<<>>, TestFromCurl, TestPlusFromCurl}
     /\ Get(Parsed.fields, "From", "") # ""
     /\ _should_process_message(config, [sender |-> Parsed.fields["From"]]))
    => /\ response[1].stored # <<>>
       /\ Len(response[1].stored[1].body) <= PollBodyLimit
       /\ response[1].stored[1].provider = "twilio"

\* The history is in ascending order of storage timestamp.
HistoryAscending ==
    \A i, j \in 1..Len(message_history) :
        i < j => message_history[i].stored_at.t <= message_history[j].stored_at.t

\* C16: in every state message_count is at least the length of the history
\* and the history is in ascending order of storage timestamp, and no step,
\* a prune included, lowers message_count.
C16_CountCoversHistory ==
    /\ [](message_count >= Len(message_history) /\ HistoryAscending)
    /\ [][message_count' >= message_count]_vars

\* A prune has left entries of different storage times and fewer entries
\* than the counter counts.
C16_Witness ==
    /\ hist.cleaned > 0
    /\ message_count > Len(message_history)
    /\ Len(message_history) >= 2
    /\ message_history[1].stored_at.t < message_history[Len(message_history)].stored_at.t

\* C17: a prune leaves message_count and latest_message as they are; of the
\* store's data it changes the history only.
C17_PruneTouchesHistoryOnly ==
    [][CleanupOldMessages =>
          /\ message_count' = message_count
          /\ latest_message' = latest_message
          /\ UNCHANGED <<now, config, registry, unload_pc, bus, inflight, response,
                         poll_pc, processed_sids,
                   binary_sensor>>]_vars

\* A prune has emptied the history of a store that keeps its counter and its
\* latest message.
C17_Witness ==
    /\ hist.cleaned > 0
    /\ message_history = <<>>
    /\ message_count = hist.stores
    /\ latest_message # <<>>
    /\ latest_message = hist.last_stored

\* Prune tasks created and not finished.
TasksInFlight == tasks.created - tasks.finished

\* C18: a store_message call that leaves the history longer than the cap
\* leaves a prune task scheduled, at most one prune task is in flight at any
\* time, and a call made while a prune task is not done creates no task.
C18_OnePruneInFlight ==
    /\ [](TasksInFlight <= 1)
    /\ [][(hist'.stores = hist.stores + 1
             /\ Len(message_history') > CleanupThreshold)
          => /\ cleanup_task' = "pending"
             /\ TasksInFlight' = 1
             /\ cleanup_task = "pending" => tasks' = tasks
             /\ cleanup_task # "pending" => tasks'.created = tasks.created + 1]_vars

\* Two calls left the history over the cap while the task the first of them
\* created was not done, and that task is the only one created.
C18_Witness ==
    /\ Len(message_history) >= CleanupThreshold + 2
    /\ cleanup_task = "pending"
    /\ tasks = [created |-> 1, finished |-> 0]

\* C19: once the polling task is in its loop, an error raised in a cycle
\* leaves it asleep in the except clause, from where it starts another cycle
\* unless it is cancelled; the task leaves its loop by cancellation only.
C19_ErrorsDoNotEndTask ==
    /\ [][(poll_pc = "fetching"
             /\ (PollFetchError
                   \/ \E f \in FetchResults, k \in 0..(FetchLimit - 1) :
                          PollProcessError(f, k)))
            => (poll_pc' = "backoff")]_vars
    /\ [][(poll_pc \in {"fetching", "sleeping", "backoff"})
            => (poll_pc' \in {"fetching", "sleeping", "backoff", "cancelled"})]_vars
    /\ (poll_pc = "backoff") ~> (poll_pc \in {"fetching", "cancelled"})

\* An error ended a cycle after a message of it was published, and the task
\* is fetching again with the rest of the cycle's messages still to process.
C19_Witness ==
    /\ poll_pc = "fetching"
    /\ hist.abandoned # {}
    /\ hist.abandoned \cap processed_sids = {}
    /\ processed_sids # {}
    /\ message_count > 0

\* The provider timestamp of the message an event was fired for.
DateSentOf(event) == ProviderMessage(event.data.message_sid).date_sent

\* C20: the message-received events one polling cycle fires are in
\* non-decreasing order of provider timestamp.
C20_PublishedOldestFirst ==
    [][LET fired == SubSeq(bus', Len(bus) + 1, Len(bus'))
           received == SelectSeq(fired,
                                 LAMBDA e : e.type = "smartsms_message_received")
       IN  \A i, j \in 1..Len(received) :
               i < j => DateSentOf(received[i]) <= DateSentOf(received[j])]_vars

\* The last cycle published two messages, the older first, that the provider
\* returned newest first.
C20_Witness ==
    /\ Len(hist.last_published) >= 2
    /\ hist.last_published[1] > hist.last_published[2]
    /\ ProviderMessage(hist.last_published[1]).date_sent
           < ProviderMessage(hist.last_published[2]).date_sent

\* C21: a polled message the sender filter rejects is in processed_sids when
\* its cycle has gone through the loop (or was cut from it by that cycle's
\* clean-up), and a cycle hands no sid of processed_sids to the filter.
C21_RejectedIsMarked ==
    /\ [](poll_pc \in {"sleeping", "backoff"} =>
            \A s \in hist.last_evaluated :
                ~PolledPasses(s) => s \in processed_sids \cup hist.evicted)
    /\ [][(poll_pc = "fetching") =>
            (\A s \in processed_sids : s \notin hist'.last_evaluated)]_vars

\* A rejected message was returned by two cycles, stayed in processed_sids,
\* and the second cycle did not hand it to the filter.
C21_Witness ==
    \E s \in Sids :
        /\ ~PolledPasses(s)
        /\ hist.returned[s] >= 2
        /\ s \in processed_sids
        /\ s \notin hist.evicted
        /\ s \notin hist.last_evaluated
        /\ poll_pc = "sleeping"

\* C22 as stated: every sid in processed_sids has had a message-received
\* event.
C22_WindowImpliesPublished ==
    \A s \in processed_sids : hist.published[s] >= 1

\* C22, amended: every sid in processed_sids whose sender passes the filter
\* has had a message-received event, and a sid whose sender the filter
\* rejects has had none.
C22_WindowImpliesPublishedIfPassed ==
    \A s \in processed_sids :
        IF PolledPasses(s) THEN hist.published[s] >= 1 ELSE hist.published[s] = 0

\* processed_sids holds a published sid and a rejected one.
C22_Witness ==
    \E s, r \in processed_sids :
        /\ PolledPasses(s) /\ hist.published[s] >= 1
        /\ ~PolledPasses(r) /\ hist.published[r] = 0

\* The sids a polling cycle that ran to its end had in processed_sids before
\* its clean-up.
BeforeCut == processed_sids \cup hist'.last_evaluated

C24_BadSignatureAnswered403 ==
    Dispatched /\ response[1].request.signature # "valid" =>
        /\ response[1].status = 403
        /\ \A i \in 1..Len(response[1].events) :
               response[1].events[i] # "smartsms_message_received"
        /\ response[1].stored = <<>>

\* C25: once async_unload_entry has returned, the polling task is done, and
\* no step fires an event, stores a message or moves the task.
C25_NothingAfterUnload ==
    /\ [](unload_pc \in {"unloaded", "unload_failed"} => poll_pc = "cancelled")
    /\ [][(unload_pc \in {"unloaded", "unload_failed"}) =>
            (/\ bus' = bus
             /\ hist'.stores = hist.stores
             /\ processed_sids' = processed_sids
             /\ poll_pc' = poll_pc)]_vars

\* The entry was unloaded after its polling task had published messages.
C25_Witness ==
    /\ unload_pc = "unloaded"
    /\ poll_pc = "cancelled"
    /\ processed_sids # {}
    /\ \E i \in 1..Len(bus) : bus[i].type = "smartsms_message_received"

\* The step is a call of handle_webhook.
IsDelivery == hist'.deliveries = hist.deliveries + 1

\* C26 as stated: while the entry is loaded the registry maps the webhook id
\* to the entry id, from async_unregister_webhook to the next setup the
\* webhook id is absent, and a delivery to it is then answered 404.
C26_RegisteredExactlyWhileLoaded ==
    /\ [](unload_pc \in {"loaded", "task_awaited"} =>
            WebhookId \in DOMAIN registry /\ registry[WebhookId] = EntryId)
    /\ [](unload_pc \in {"platforms", "unloaded", "unload_failed"} =>
            WebhookId \notin DOMAIN registry)
    /\ [][(IsDelivery /\ WebhookId \notin DOMAIN registry) =>
            (response'[1].status = 404)]_vars

\* C26, amended: the same, but a delivery to the absent webhook id that
\* declares a length over the payload limit is answered 413.
C26_RegisteredWhileLoaded404Or413 ==
    /\ [](unload_pc \in {"loaded", "task_awaited"} =>
            WebhookId \in DOMAIN registry /\ registry[WebhookId] = EntryId)
    /\ [](unload_pc \in {"platforms", "unloaded", "unload_failed"} =>
            WebhookId \notin DOMAIN registry)
    /\ [][(IsDelivery /\ WebhookId \notin DOMAIN registry) =>
            (response'[1].status =
                IF response'[1].request.content_length > PayloadLimit
                THEN 413 ELSE 404)]_vars

\* The entry was unloaded, a delivery to its webhook id was answered 404, and
\* the entry was set up again.
C26_Witness ==
    /\ unload_pc = "loaded"
    /\ WebhookId \in DOMAIN registry
    /\ response # <<>>
    /\ response[1].webhook_id = WebhookId
    /\ response[1].status = 404

\* A literal keyword is a case-insensitive substring of the body; a pattern
\* matches when it is valid and re.search finds it, case ignored.
Matches(keyword, message_body) ==
    IF keyword.kind = "lit"
    THEN \E i \in 0..(Len(message_body) - Len(keyword.text)) :
             \A j \in 1..Len(keyword.text) :
                 LowerChar(message_body[i + j]) = LowerChar(keyword.text[j])
    ELSE keyword.valid /\ KeywordMatches(keyword, message_body)

\* C27: _check_keywords returns the subsequence of the configured list made
\* of the keywords that match, in the configured order, a keyword configured
\* twice appearing twice.
C27_MatchesInConfiguredOrder ==
    ret # <<>> =>
        ret[1] = SelectSeq(call[1].keywords,
                           LAMBDA k : Matches(k, call[1].message_body))

\* A keyword configured twice was matched twice, after another match.
C27_Witness ==
    /\ ret # <<>>
    /\ Len(ret[1]) = 3
    /\ ret[1][2] = ret[1][3]
    /\ ret[1][1] # ret[1][2]
    /\ ret[1][2].kind = "lit"
    /\ ret[1][2].text # call[1].message_body

\* C28: with an invalid pattern in the configured list, a delivery of a
\* message is answered 200 and its record carries the matches of the other
\* keywords, those before and those after the invalid pattern.
C28_InvalidPatternSkipped ==
    Dispatched =>
        /\ response[1].status = 200
        /\ response[1].stored # <<>>
        /\ response[1].stored[1].matched_keywords =
               SelectSeq(config.keywords,
                         LAMBDA k : Matches(k, response[1].stored[1].body))

\* A record carries a match configured before an invalid pattern and one
\* configured after it.
C28_Witness ==
    /\ Dispatched
    /\ response[1].status = 200
    /\ response[1].stored # <<>>
    /\ Len(config.keywords) = 3
    /\ config.keywords[2].kind = "regex" /\ ~config.keywords[2].valid
    /\ response[1].stored[1].matched_keywords =
           <<config.keywords[1], config.keywords[3]>>

\* The events a step fires.
Fired == SubSeq(bus', Len(bus) + 1, Len(bus'))

\* C29: a message-received event is followed at once by a keyword-matched
\* event with the same record exactly when the record's list of matched
\* keywords is not empty, that list holds the configured keywords that match
\* the body of a provider message, and a keyword-matched event is fired only
\* right after the message-received event of its record.
C29_KeywordEventIffMatched ==
    [][\A i \in 1..Len(Fired) :
          /\ (Fired[i].type = "smartsms_message_received") =>
                 (/\ (/\ i < Len(Fired)
                      /\ Fired[i + 1].type = "smartsms_keyword_matched"
                      /\ Fired[i + 1].data = Fired[i].data)
                         <=> (Fired[i].data.matched_keywords # <<>>)
                  /\ (Fired[i].data.provider = "twilio") =>
                         (Fired[i].data.matched_keywords =
                             SelectSeq(config.keywords,
                                       LAMBDA k : Matches(k, Fired[i].data.body))))
          /\ (Fired[i].type = "smartsms_keyword_matched") =>
                 (/\ i > 1
                  /\ Fired[i - 1].type = "smartsms_message_received"
                  /\ Fired[i - 1].data = Fired[i].data)]_vars

\* Both paths have fired a keyword-matched event, and a message without a
\* match was published.
C29_Witness ==
    /\ \E i, j \in 1..Len(bus) :
          /\ bus[i].type = "smartsms_keyword_matched"
          /\ bus[j].type = "smartsms_keyword_matched"
          /\ "raw_body" \in DOMAIN bus[i].data
          /\ "raw_body" \notin DOMAIN bus[j].data
    /\ \E i \in 1..Len(bus) :
          /\ bus[i].type = "smartsms_message_received"
          /\ bus[i].data.matched_keywords = <<>>

\* C30: when the message-received event of a message is fired, the store
\* already holds the message: the count a listener reads at that moment is
\* the count after the call of store_message for that message.
C30_StoredBeforePublished ==
    hist.count_at_fire # <<>> => hist.count_at_fire[1] = message_count

\* The event types of the last response of handle_webhook.
Answered(type) ==
    /\ response # <<>>
    /\ \E i \in 1..Len(response[1].events) : response[1].events[i] = type

\* C31: a delivery whose message was accepted (its message-received event
\* was fired) and whose update of the store failed (nothing was stored: an
\* error inside store_message, or no state of the instance in hass.data)
\* is answered 200.
C31_StoreFailureAnswered200 ==
    Answered("smartsms_message_received") /\ response[1].stored = <<>>
        => response[1].status = 200

\* An accepted message whose store_message raised was answered 200.
C31_Witness ==
    /\ Answered("smartsms_message_received")
    /\ response[1].stored = <<>>
    /\ response[1].raised = "store"
    /\ response[1].request.Body = HelloWorld
    /\ response[1].status = 200

\* An accepted message delivered while the entry was being unloaded found no
\* state of the instance and was answered 200.
C31_WitnessUnloaded ==
    /\ Answered("smartsms_message_received")
    /\ response[1].stored = <<>>
    /\ response[1].raised = ""
    /\ unload_pc = "unloaded"
    /\ response[1].status = 200

\* The entries of the history that store_message appended at tick t.
AppendedAt(t) ==
    Cardinality({i \in 1..Len(message_history) :
                    /\ message_history[i].stored_at.kind = "aware"
                    /\ message_history[i].stored_at.t = t})

\* C32: under every interleaving of store_message calls and prune tasks the
\* history holds every record store_message appended whose storage
\* timestamp is newer than now minus the retention horizon, those appended
\* between the scheduling and the run of a prune included.
C32_NoAppendedRecordLost ==
    \A t \in 0..MaxTime :
        t > now - RetentionTicks => AppendedAt(t) = hist.appended_at[t]

\* The only prune task created has run, on a history that store_message had
\* appended to after scheduling it, and has removed an aged entry and kept
\* the later ones.
C32_Witness ==
    /\ tasks = [created |-> 1, finished |-> 1]
    /\ hist.cleaned >= 1
    /\ Len(message_history) > CleanupThreshold

\* C33: a polling cycle hands to the filter every inbound message the
\* provider holds for the last 24 hours whose sid is not in processed_sids,
\* however many messages the provider holds.
C33_EveryHeldMessageProcessed ==
    [][(poll_pc = "fetching" /\ poll_pc' = "sleeping")
          => (\A s \in call[1].held :
                 (ProviderMessage(s).direction = "inbound" /\ s \notin processed_sids)
                     => s \in hist'.last_evaluated)]_vars

\* C34: for every request body _parse_request_data returns a mapping or
\* signals failure, which the handler answers 400; it returns nothing that
\* is no mapping, and an empty body signals failure.
C34_ParseMappingOrFailure ==
    Dispatched =>
        /\ Parsed.kind \in {"mapping", "none"}
        /\ Parsed.kind = "none" => response[1].status = 400
        /\ response[1].request.enc = "empty"
               => Parsed.kind = "none" /\ response[1].status = 400

\* The event is a message-received event of a provider message, fired by the
\* polling task (polled: its record carries raw_body) or by handle_webhook.
IsReceived(event, polled) ==
    /\ event.type = "smartsms_message_received"
    /\ event.data.provider = "twilio"
    /\ ("raw_body" \in DOMAIN event.data) = polled

\* C35: no provider message has a message-received event from the webhook
\* and another from the polling task of the same instance.
C35_OneEventAcrossPaths ==
    \A i, j \in 1..Len(bus) :
        ~(/\ IsReceived(bus[i], FALSE)
          /\ IsReceived(bus[j], TRUE)
          /\ bus[i].data.message_sid = bus[j].data.message_sid
          /\ bus[i].data.sender = bus[j].data.sender
          /\ bus[i].data.body = bus[j].data.raw_body)

\* C36: every delivery for which handle_webhook fired a message-received
\* event or stored a record had a payload with a body and a sender, and its
\* sender passed _should_process_message under the instance's lists.
C36_PublishedPassedExtractionAndFilter ==
    (/\ Dispatched
     /\ \/ Answered("smartsms_message_received")
        \/ response[1].stored # <<>>)
    => /\ Get(Parsed.fields, "Body", <<>>) # <<>>
       /\ Get(Parsed.fields, "From", "") # ""
       /\ _should_process_message(config,
              [sender |-> Get(Parsed.fields, "From", "")])

\* C37: a message-received event that the other entry fires for a message
\* of its own leaves the state and the reset timer of this entry's binary
\* sensor as they were.
C37_OtherEntryLeavesSensor ==
    [][(\E sid \in OtherSids : OtherEntryPublishes(sid))
          => (binary_sensor'[EntryId] = binary_sensor[EntryId])]_vars

\* C38 as stated: while the entry's data is set up, the message-received
\* events fired for the entry since its setup are as many as message_count.
C38_EventsEqualCount ==
    EntryDataExists => hist.received = message_count

\* C38, amended: while the entry's data is set up, the message-received
\* events fired for the entry since its setup are as many as message_count
\* and the calls of _update_entities that logged an error and stored nothing,
\* under every interleaving of deliveries, polling cycles, unload and setup.
C38_EventsEqualCountAndErrors ==
    EntryDataExists => hist.received = message_count + hist.store_errors

\* The entry was unloaded and set up again after it had published a
\* message; since then one message was published and counted and another
\* published while store_message raised.
C38_Witness ==
    /\ unload_pc = "loaded"
    /\ message_count >= 1
    /\ hist.store_errors >= 1
    /\ hist.received = message_count + hist.store_errors
    /\ Cardinality({i \in 1..Len(bus) :
                       bus[i].type = "smartsms_message_received"}) > hist.received

\* C39: when async_setup_entry has failed after it registered the webhook,
\* the webhook id is not in the registry and no polling task of the entry is
\* running; and in every state a webhook id in the registry maps to an entry
\* whose data exists in hass.data.
C39_FailedSetupLeavesNothing ==
    /\ unload_pc = "setup_failed" =>
           /\ WebhookId \notin DOMAIN registry
           /\ poll_pc \notin {"start", "fetching", "sleeping", "backoff"}
    /\ WebhookId \in DOMAIN registry => EntryDataExists

\* C40: when async_unload_entry has returned False, the polling task of the
\* entry is still running and its webhook id still registered.
C40_FailedUnloadLeavesEntry ==
    unload_pc = "unload_failed" =>
        /\ poll_pc \in {"start", "fetching", "sleeping", "backoff"}
        /\ WebhookId \in DOMAIN registry

====
